---- MODULE Spec2Model ----
(***************************************************************************)
(* Model of the ChatGPT export viewer (Kelushanqian/chatgpt_chat_visualizer)*)
(*                                                                         *)
(*  - the export parser (js/main.js, parser part): extractMessages,        *)
(*    mergeConsecutiveMessages, isValidMessage, processMessage,            *)
(*    processConversationsData, run as a step-by-step walk;                *)
(*  - the application (js/ui.js, db, favorites): the IndexedDB stores,     *)
(*    UIManager selection / display / filtering, favorites, upload, reset; *)
(*  - the rendering core described by the specification (markup caches,    *)
(*    async converter, batch renderer, virtual window, view orchestrator). *)
(***************************************************************************)
EXTENDS Integers, Sequences, FiniteSets, Bags, TLC

(***************************************************************************)
(* Bounds                                                                  *)
(***************************************************************************)
\* number of nodes in the mapping of an exported conversation
MaxNodes == 3

\* iterations of the extractMessages loop that are explored (a parent cycle
\* never leaves the loop)
MaxWalkSteps == 5

\* nodes of one exported conversation that are not plain user / assistant
\* text nodes
MaxSpecial == 1

\* requests awaited by user actions that may be pending when a user action
\* starts another one
MaxPending == 1

\* favorites and highlights ever added (keys handed out by the key generators)
MaxFavSeq == 2

MaxHlSeq == 1

\* notes of favorites updated (each update takes a key of the favorites store)
MaxNoteUpdates == 1

\* highlights added by direct calls of HighlightsManager.addHighlight
MaxHighlights == 2

\* files uploaded in one run of the page
MaxUploads == 3

\* conversations of the stores whose trend chart is drawn
MaxTrendConversations == 52

(***************************************************************************)
(* Generic helpers                                                         *)
(***************************************************************************)
Null == 0

Range(s) == {s[i] : i \in 1..Len(s)}

RECURSIVE SumSeq(_)
SumSeq(s) == IF s = <<>> THEN 0 ELSE Head(s) + SumSeq(Tail(s))

Max2(a, b) == IF a >= b THEN a ELSE b

Min2(a, b) == IF a <= b THEN a ELSE b

(***************************************************************************)
(* Export data.  A conversation of the export file has a current_node and  *)
(* a mapping id -> node; a node has a parent id and possibly a message.    *)
(* Node ids are 1..MaxNodes, Null is the JavaScript null/undefined, and    *)
(* MissingId is an id that is not a key of the mapping.                    *)
(*                                                                         *)
(* A text is a sequence of lines (join("\n") is concatenation).  A part of *)
(* message.content.parts is a line number > 0 (a non-blank string, already *)
(* trimmed), BlankPart (a string of white space) or NonStringPart (an      *)
(* object part such as an image pointer).                                  *)
(***************************************************************************)
NodeIds == 1..MaxNodes

MissingId == MaxNodes + 1

BlankPart == 0

NonStringPart == -1

NoMessage == [present |-> FALSE, role |-> "none", parts |-> <<>>, hidden |-> FALSE, create_time |-> 0]

\* the message of node n, by kind
NodeMessage(kind, n) ==
  CASE kind = "user"      -> [present |-> TRUE, role |-> "user", parts |-> <<n>>, hidden |-> FALSE, create_time |-> n]
    [] kind = "assistant" -> [present |-> TRUE, role |-> "assistant", parts |-> <<n>>, hidden |-> FALSE, create_time |-> n]
    [] kind = "tool"      -> [present |-> TRUE, role |-> "tool", parts |-> <<NonStringPart, n>>, hidden |-> FALSE, create_time |-> n]
    [] kind = "system"    -> [present |-> TRUE, role |-> "system", parts |-> <<n>>, hidden |-> FALSE, create_time |-> n]
    [] kind = "hidden"    -> [present |-> TRUE, role |-> "user", parts |-> <<n>>, hidden |-> TRUE, create_time |-> n]
    [] kind = "blank"     -> [present |-> TRUE, role |-> "assistant", parts |-> <<BlankPart, NonStringPart>>, hidden |-> FALSE, create_time |-> 0]
    [] kind = "empty"     -> [present |-> TRUE, role |-> "user", parts |-> <<>>, hidden |-> FALSE, create_time |-> n]
    [] OTHER              -> NoMessage

\* kinds of the ordinary question / answer nodes, and of the other nodes
PlainKinds == {"user", "assistant"}

SpecialKinds == {"tool", "system", "hidden", "blank", "empty", "nomessage"}

NodeKinds == PlainKinds \cup SpecialKinds

MkNode(n, parent, kind) == [id |-> n, parent |-> parent, message |-> NodeMessage(kind, n)]

(***************************************************************************)
(* parser: isValidMessage, processMessage, mergeConsecutiveMessages        *)
(***************************************************************************)
\* isValidMessage without the test of the system role
isValidMessage_NoSystemTest(node) ==
  /\ node.message.present
  /\ Len(node.message.parts) # 0
  /\ ~node.message.hidden

isValidMessage(node) ==
  /\ node.message.present
  /\ ~(node.message.role = "system" \/ Len(node.message.parts) = 0)
  /\ ~node.message.hidden

\* parts.filter(typeof part === "string" && part.trim()).join("\n").trim()
RECURSIVE JoinParts(_)
JoinParts(parts) ==
  IF parts = <<>> THEN <<>>
  ELSE IF Head(parts) > 0 THEN <<Head(parts)>> \o JoinParts(Tail(parts))
       ELSE JoinParts(Tail(parts))

NoResult == [id |-> Null, role |-> "none", content |-> <<>>, createTime |-> 0]

\* processMessage that keeps the author role as the role of the message
processMessage_KeepRole(node) ==
  LET content == JoinParts(node.message.parts)
  IN IF content = <<>> THEN NoResult
     ELSE [id |-> node.id, role |-> node.message.role, content |-> content,
           createTime |-> node.message.create_time]

processMessage(node) ==
  LET authorRole == node.message.role
      role == IF authorRole = "assistant" \/ authorRole = "tool" THEN "assistant"
              ELSE IF authorRole = "system" THEN "system"
              ELSE "user"
      content == JoinParts(node.message.parts)
  IN IF content = <<>> THEN NoResult
     ELSE [id |-> node.id, role |-> role, content |-> content,
           createTime |-> node.message.create_time]

\* the loop of mergeConsecutiveMessages from index i on, with the messages
\* merged so far and the message being merged
RECURSIVE MergeFrom(_, _, _, _)
MergeFrom(msgs, i, merged, cur) ==
  IF i > Len(msgs) THEN Append(merged, cur)
  ELSE IF msgs[i].role = cur.role
       THEN MergeFrom(msgs, i + 1, merged,
                      [cur EXCEPT !.content = cur.content \o msgs[i].content,
                                  !.createTime = Max2(cur.createTime, msgs[i].createTime)])
       ELSE MergeFrom(msgs, i + 1, Append(merged, cur), msgs[i])

\* a merge that pushes every message as it is
mergeConsecutiveMessages_NoMerge(msgs) == msgs

mergeConsecutiveMessages(msgs) ==
  IF Len(msgs) = 0 THEN <<>> ELSE MergeFrom(msgs, 2, <<>>, msgs[1])

(***************************************************************************)
(* extractMessages: one iteration of the while loop, on the loop state     *)
(* [node: currentNode, msgs: messages, running]                            *)
(***************************************************************************)
WalkStart(conv) == [node |-> conv.current_node, msgs |-> <<>>, running |-> TRUE]

\* conversation.mapping[currentNode] throws when the conversation has no
\* mapping
Throws(conv, w) == w.running /\ w.node # Null /\ "mapping" \notin DOMAIN conv

\* the loop body with push in place of unshift
WalkBody_Push(conv, w) ==
  IF w.node = Null \/ w.node \notin DOMAIN conv.mapping
  THEN [w EXCEPT !.running = FALSE]
  ELSE LET node == conv.mapping[w.node]
           message == processMessage(node)
       IN [node |-> node.parent,
           msgs |-> IF isValidMessage(node) /\ message # NoResult
                    THEN Append(w.msgs, message) ELSE w.msgs,
           running |-> TRUE]

WalkBody(conv, w) ==
  IF w.node = Null \/ w.node \notin DOMAIN conv.mapping
  THEN [w EXCEPT !.running = FALSE]
  ELSE LET node == conv.mapping[w.node]
           message == processMessage(node)
       IN [node |-> node.parent,
           msgs |-> IF isValidMessage(node) /\ message # NoResult
                    THEN <<message>> \o w.msgs ELSE w.msgs,
           running |-> TRUE]

\* the loop run to its end; fuel bounds the evaluation (a walk that needs
\* more iterations than there are nodes is in a parent cycle)
RECURSIVE WalkLoop(_, _, _)
WalkLoop(conv, w, fuel) ==
  IF ~w.running \/ fuel = 0 THEN w ELSE WalkLoop(conv, WalkBody(conv, w), fuel - 1)

extractMessages(conv) ==
  mergeConsecutiveMessages(WalkLoop(conv, WalkStart(conv), MaxNodes + 2).msgs)

CountRole(msgs, role) == Cardinality({i \in 1..Len(msgs) : msgs[i].role = role})

\* the body of the forEach of processConversationsData, given the messages
processConversation(conv, msgs) ==
  [id |-> conv.id, title |-> conv.title, create_time |-> conv.create_time,
   messages |-> msgs,
   messageCount |-> Len(msgs),
   userMessageCount |-> CountRole(msgs, "user"),
   assistantMessageCount |-> CountRole(msgs, "assistant")]

\* a catch block that leaves the message count at one
caughtConversation_OneMessage(conv) ==
  [id |-> conv.id, title |-> conv.title, create_time |-> conv.create_time,
   messages |-> <<>>,
   messageCount |-> 1,
   userMessageCount |-> 0,
   assistantMessageCount |-> 0]

\* the catch block of the forEach of processConversationsData
caughtConversation(conv) ==
  [id |-> conv.id, title |-> conv.title, create_time |-> conv.create_time,
   messages |-> <<>>,
   messageCount |-> 0,
   userMessageCount |-> 0,
   assistantMessageCount |-> 0]

(***************************************************************************)
(* processConversationsData as a function, for export files whose parent   *)
(* chains are acyclic                                                      *)
(***************************************************************************)
processConversationsData(file) ==
  [k \in 1..Len(file) |->
     IF Throws(file[k], WalkStart(file[k])) THEN caughtConversation(file[k])
     ELSE processConversation(file[k], extractMessages(file[k]))]

(***************************************************************************)
(* The export files that are uploaded.  A conversation is a chain          *)
(* 1 <- 2 <- ... of nodes of the given kinds with current_node = leaf; the  *)
(* nodes after the leaf are regenerated branches.                          *)
(***************************************************************************)
ChainConversation(id, title, ctime, leaf, kinds) ==
  [id |-> id, title |-> title, create_time |-> ctime, current_node |-> leaf,
   mapping |-> [n \in NodeIds |->
                  MkNode(n, n - 1, IF n <= Len(kinds) THEN kinds[n] ELSE "assistant")]]

FileNames == {"A", "B"}

\* the files that can be chosen: A.json, B.json and T.txt
UploadNames == FileNames \cup {"T"}

\* file.name.endsWith(".json")
endsWithJson(name) == name \in FileNames

ExportFile(name) ==
  IF name = "A"
  THEN << ChainConversation("c1", <<"H", "i">>, 20, 2, <<"user", "assistant", "assistant">>),
          ChainConversation("c2", <<"h", "o">>, 10, 3, <<"user", "tool", "assistant">>) >>
  ELSE << ChainConversation("c2", <<"o", "h">>, 30, 1, <<"user", "assistant", "user">>),
          ChainConversation("c3", <<"A">>, 20, 3, <<"user", "assistant", "user">>) >>

ConvIds == {"c1", "c2", "c3"}

NoConv == [id |-> "", title |-> <<>>, create_time |-> 0, messages |-> <<>>,
           messageCount |-> 0, userMessageCount |-> 0, assistantMessageCount |-> 0]

(***************************************************************************)
(* ui.js: renderMarkdown, renderMessage, displayConversation.              *)
(* marked.parse either returns the converted markup or throws; the result  *)
(* of a render is [ok, html], ok = FALSE standing for a thrown exception.  *)
(***************************************************************************)
MarkedParse(text) == [fmt |-> "marked", text |-> text]

escapeHtml(text) == [fmt |-> "escaped", text |-> text]

\* renderMarkdown without the try / catch around marked.parse
renderMarkdown_NoCatch(text, throws) ==
  IF throws THEN [ok |-> FALSE, html |-> escapeHtml(<<>>)]
  ELSE [ok |-> TRUE, html |-> MarkedParse(text)]

renderMarkdown(text, throws) ==
  IF throws THEN [ok |-> TRUE, html |-> escapeHtml(text)]
  ELSE [ok |-> TRUE, html |-> MarkedParse(text)]

renderMessage(msg, throws) ==
  LET contentHtml == renderMarkdown(msg.content, throws)
  IN [ok |-> contentHtml.ok,
      html |-> [id |-> msg.id, role |-> msg.role, content |-> contentHtml.html]]

\* messages.map(...) with the fragments in reverse order
RenderAll_Reversed(messages, throwing) ==
  [i \in 1..Len(messages) |->
     renderMessage(messages[Len(messages) + 1 - i], (Len(messages) + 1 - i) \in throwing)]

\* messages.map((msg) => this.renderMessage(msg)); throwing is the set of
\* positions at which marked.parse throws
RenderAll(messages, throwing) ==
  [i \in 1..Len(messages) |-> renderMessage(messages[i], i \in throwing)]

\* displayConversation: the new [title, container], or the old container
\* and ok = FALSE when a renderMessage call threw (title is set before)
displayConversation(conversation, throwing, oldContainer) ==
  LET rendered == RenderAll(conversation.messages, throwing)
      ok == \A i \in 1..Len(rendered) : rendered[i].ok
  IN [ok |-> ok,
      title |-> conversation.title,
      container |-> IF ok THEN [i \in 1..Len(rendered) |-> rendered[i].html]
                    ELSE oldContainer]

(***************************************************************************)
(* Titles are sequences of letters.  toLowerCase, includes, localeCompare. *)
(***************************************************************************)
toLowerCase(t) ==
  [i \in 1..Len(t) |-> CASE t[i] = "H" -> "h" [] t[i] = "A" -> "a" [] t[i] = "O" -> "o"
                         [] t[i] = "I" -> "i" [] OTHER -> t[i]]

\* hay.includes(needle)
Includes(hay, needle) ==
  \E d \in 0..(Len(hay) - Len(needle)) : \A i \in 1..Len(needle) : hay[d + i] = needle[i]

\* position of a letter in the collation order of localeCompare (letters
\* first by alphabet, lower case before upper case)
LetterRank(ch) ==
  CASE ch = "a" -> 1 [] ch = "A" -> 2 [] ch = "h" -> 3 [] ch = "H" -> 4
    [] ch = "i" -> 5 [] ch = "I" -> 6 [] ch = "o" -> 7 [] ch = "O" -> 8 [] OTHER -> 9

\* a.localeCompare(b) <= 0 : alphabet first, case as the tie break
RECURSIVE AlphaCompare(_, _)
AlphaCompare(a, b) ==
  IF a = <<>> /\ b = <<>> THEN 0
  ELSE IF a = <<>> THEN -1
  ELSE IF b = <<>> THEN 1
  ELSE IF (LetterRank(Head(a)) + 1) \div 2 < (LetterRank(Head(b)) + 1) \div 2 THEN -1
  ELSE IF (LetterRank(Head(a)) + 1) \div 2 > (LetterRank(Head(b)) + 1) \div 2 THEN 1
  ELSE AlphaCompare(Tail(a), Tail(b))

RECURSIVE CaseCompare(_, _)
CaseCompare(a, b) ==
  IF a = <<>> \/ b = <<>> THEN 0
  ELSE IF LetterRank(Head(a)) < LetterRank(Head(b)) THEN -1
  ELSE IF LetterRank(Head(a)) > LetterRank(Head(b)) THEN 1
  ELSE CaseCompare(Tail(a), Tail(b))

localeCompare(a, b) ==
  IF AlphaCompare(a, b) # 0 THEN AlphaCompare(a, b) ELSE CaseCompare(a, b)

\* Array.prototype.sort with comparator cmp(a, b) (stable): insertion of
\* each element after the elements that do not compare greater
SortBy(s, cmp(_, _)) ==
  LET RECURSIVE Ins(_, _)
      Ins(sorted, x) ==
        IF sorted = <<>> THEN <<x>>
        ELSE IF cmp(Head(sorted), x) <= 0
             THEN <<Head(sorted)>> \o Ins(Tail(sorted), x)
             ELSE <<x>> \o sorted
      RECURSIVE Srt(_)
      Srt(t) == IF t = <<>> THEN <<>>
                ELSE Ins(Srt(SubSeq(t, 1, Len(t) - 1)), t[Len(t)])
  IN Srt(s)

FilterSeq(s, Keep(_)) ==
  LET RECURSIVE F(_)
      F(t) == IF t = <<>> THEN <<>>
              ELSE IF Keep(Head(t)) THEN <<Head(t)>> \o F(Tail(t)) ELSE F(Tail(t))
  IN F(s)

ByTimeDesc(a, b) == b.create_time - a.create_time

ByTimeAsc(a, b) == a.create_time - b.create_time

ByMessagesDesc(a, b) == b.messageCount - a.messageCount

ByTitle(a, b) == localeCompare(a.title, b.title)

(***************************************************************************)
(* db.js: the requests made by the methods of ChatDatabase.  A request is  *)
(* one transaction on one object store; it stays pending until IndexedDB   *)
(* runs it and its success or error event resumes the caller (k names the  *)
(* continuation).                                                          *)
(***************************************************************************)
Request(store, mode, op, key, k) ==
  [store |-> store, mode |-> mode, op |-> op, key |-> key, msg |-> 0, time |-> 0,
   note |-> "", convs |-> <<>>, favs |-> <<>>, k |-> k]

\* getConversation with a transaction that deletes the record it reads
getConversation_Delete(id, k) == Request("conversations", "readwrite", "delete", id, k)

getConversation(id, k) == Request("conversations", "readonly", "get", id, k)

\* a saveConversations that puts nothing into the store
saveConversations_Nothing(conversations, k) ==
  [Request("conversations", "readwrite", "none", "", k) EXCEPT !.convs = conversations]

saveConversations(conversations, k) ==
  [Request("conversations", "readwrite", "put", "", k) EXCEPT !.convs = conversations]

getManyConversations(conversations, k) ==
  [Request("conversations", "readonly", "getMany", "", k) EXCEPT !.convs = conversations]

\* the favorite is stamped with Date.now() when the request is made
addFavorite(conversationId, note, now, k) ==
  [Request("favorites", "readwrite", "add", conversationId, k) EXCEPT !.time = now, !.note = note]

\* a removeFavorite that leaves the record in the store
removeFavorite_KeepRecord(conversationId, k) == Request("favorites", "readwrite", "none", conversationId, k)

removeFavorite(conversationId, k) == Request("favorites", "readwrite", "deleteByIndex", conversationId, k)

getFavorites(k) == Request("favorites", "readonly", "getAll", "", k)

addHighlight(conversationId, messageId, k) ==
  [Request("highlights", "readwrite", "add", conversationId, k) EXCEPT !.msg = messageId]

\* chatDB.removeHighlight(highlightId); the request carries the
\* conversationId argument of HighlightsManager.removeHighlight for its
\* continuation
removeHighlight(highlightId, conversationId, k) ==
  [Request("highlights", "readwrite", "delete", conversationId, k) EXCEPT !.msg = highlightId]

clearAll(k) ==
  << Request("conversations", "readwrite", "clear", "", k),
     Request("favorites", "readwrite", "clear", "", k),
     Request("highlights", "readwrite", "clear", "", k) >>

(***************************************************************************)
(* Application state                                                       *)
(***************************************************************************)
VARIABLES
  dbConversations,        \* object store conversations: id -> conversation
  dbFavorites,            \* object store favorites: set of [id, conversationId]
  dbHighlights,           \* object store highlights: set of [id, conversationId, messageId]
  favSeq,                 \* key generator of the favorites store
  hlSeq,                  \* key generator of the highlights store
  pending,                \* requests not yet run, in creation order
  favorites,              \* FavoritesManager.favorites: conversationId -> favorite
  highlights,             \* HighlightsManager.highlights, as a set of highlight records
  currentConversation,    \* UIManager.currentConversation
  conversationTitle,      \* #conversationTitle
  container,              \* #messagesContainer: the message fragments
  allConversations,       \* UIManager.allConversations
  filteredConversations,  \* UIManager.filteredConversations
  conversationList,       \* #conversationList: ids of the rendered items
  screen,                 \* visibility of upload section, loading, dashboard
  lastLookup,             \* how the lookup of the last finished selectConversation ended
  uploads,                \* the clock of Date.now(): the number of files uploaded so far
  favoritesBefore,        \* the number of chatDB.addFavorite calls made before the latest upload
  initPc,                 \* the position of initApp
  toggleLog,              \* the latest toggleFavorite calls made one after the other
  selectLog               \* the id given to the latest selectConversation call, or ""

VARIABLES
  data,                   \* parser: the conversations of the parsed export file
  pIndex,                 \* parser: index of the conversation being processed
  parsePc,                \* parser: "extract" while running, then "done"
  walk,                   \* parser: currentNode and messages of extractMessages
  walkSteps,              \* parser: iterations of the loop so far
  result                  \* parser: the processed conversations

VARIABLES
  viewStore,              \* view: ids of the conversations in the persistent store
  viewLookup,             \* view: id whose store lookup is awaited, or NoId
  viewState,              \* ViewOrchestrator: Idle, CacheServed, Batching, Windowed
  viewSelected,           \* ViewOrchestrator: id of the selected conversation, or NoId
  messageCache,           \* MarkupCache: message id -> converted markup
  convCache,              \* MarkupCache: conversation id -> assembled markup
  converter,              \* AsyncConverter: pending-set, worker queue, request counts
  batchPos,               \* BatchRenderer: number of messages appended so far
  display,                \* host display surface: the ordered fragments
  window                  \* VirtualWindow: heights, scroll offset, range, spacers

VARIABLES
  download,               \* exportFavorites: how the latest export ended and its file
  trendConversations,     \* trend chart: the conversations it is computed from
  today,                  \* trend chart: the day the chart is drawn on
  chart                   \* #dailyTrendChart: the bars, left to right

parseVars == <<data, pIndex, parsePc, walk, walkSteps, result>>

viewVars == <<viewStore, viewLookup, viewState, viewSelected, messageCache, convCache,
              converter, batchPos, display, window>>

dbVars == <<dbConversations, dbFavorites, dbHighlights, favSeq, hlSeq>>

uiVars == <<currentConversation, conversationTitle, container, allConversations,
            filteredConversations, conversationList, screen>>

appVars == <<dbVars, pending, favorites, highlights, uiVars, lastLookup, uploads, favoritesBefore, initPc, toggleLog, selectLog>>

trendVars == <<trendConversations, today, chart>>

reportVars == <<download, trendVars>>

nonAppVars == <<parseVars, viewVars, reportVars>>

nonParseVars == <<appVars, viewVars, reportVars>>

nonViewVars == <<parseVars, appVars, reportVars>>

vars == <<parseVars, appVars, viewVars, reportVars>>

\* the object stores after request r ran
StoresAfter(r) ==
  [conversations |->
     CASE r.op = "put" ->
            [id \in DOMAIN dbConversations \cup {r.convs[i].id : i \in 1..Len(r.convs)} |->
               IF \E i \in 1..Len(r.convs) : r.convs[i].id = id
               THEN r.convs[CHOOSE i \in 1..Len(r.convs) :
                              /\ r.convs[i].id = id
                              /\ \A j \in (i + 1)..Len(r.convs) : r.convs[j].id # id]
               ELSE dbConversations[id]]
       [] r.op = "delete" /\ r.store = "conversations" ->
            [id \in DOMAIN dbConversations \ {r.key} |-> dbConversations[id]]
       [] r.op = "clear" /\ r.store = "conversations" -> <<>>
       [] OTHER -> dbConversations,
   favorites |->
     CASE r.op = "add" /\ r.store = "favorites" ->
            dbFavorites \cup {[id |-> favSeq + 1, conversationId |-> r.key, note |-> r.note, timestamp |-> r.time]}
       [] r.op = "deleteByIndex" -> {f \in dbFavorites : f.conversationId # r.key}
       [] r.op = "clear" /\ r.store = "favorites" -> {}
       [] OTHER -> dbFavorites,
   highlights |->
     CASE r.op = "add" /\ r.store = "highlights" ->
            dbHighlights \cup {[id |-> hlSeq + 1, conversationId |-> r.key, messageId |-> r.msg]}
       [] r.op = "delete" /\ r.store = "highlights" -> {h \in dbHighlights : h.id # r.msg}
       [] r.op = "clear" /\ r.store = "highlights" -> {}
       [] OTHER -> dbHighlights,
   favSeq |-> IF r.op = "add" /\ r.store = "favorites" THEN favSeq + 1 ELSE favSeq,
   hlSeq |-> IF r.op = "add" /\ r.store = "highlights" THEN hlSeq + 1 ELSE hlSeq]

\* request i runs successfully: the stores change as the request says
RunRequest(i) ==
  LET after == StoresAfter(pending[i])
  IN /\ dbConversations' = after.conversations
     /\ dbFavorites' = after.favorites
     /\ dbHighlights' = after.highlights
     /\ favSeq' = after.favSeq
     /\ hlSeq' = after.hlSeq

\* IndexedDB runs transactions with overlapping scope in creation order,
\* except that read-only transactions do not wait for each other
CanRun(i) ==
  /\ i \in 1..Len(pending)
  /\ \A j \in 1..(i - 1) :
       \/ pending[j].store # pending[i].store
       \/ (pending[j].mode = "readonly" /\ pending[i].mode = "readonly")

Without(q, i) == SubSeq(q, 1, i - 1) \o SubSeq(q, i + 1, Len(q))

\* the pending requests other than those of the clearDatabase that
\* backToUpload leaves running while the upload section is shown
Foreground(q) ==
  Cardinality({j \in 1..Len(q) : q[j].k \notin {"cleared", "clearedFailed", "favInit", "favInitGet"}})

\* result of store.get(id)
Lookup(id) == IF id \in DOMAIN dbConversations THEN dbConversations[id] ELSE NoConv

(***************************************************************************)
(* ui.js: visibility of the three sections                                 *)
(***************************************************************************)
\* uploadHiddenClass: #uploadSection has the class hidden; uploadDisplay:
\* its inline style.display; loading, dashboard, backButton: the element
\* does not have the class hidden; shown: the function called last
showLoading(sc) ==
  [sc EXCEPT !.uploadHiddenClass = TRUE, !.loading = TRUE, !.dashboard = FALSE,
             !.shown = "loading"]

showDashboard(sc) ==
  [sc EXCEPT !.loading = FALSE, !.uploadDisplay = "none", !.dashboard = TRUE, !.backButton = TRUE,
             !.shown = "dashboard"]

showEmptyState(sc) ==
  [sc EXCEPT !.uploadDisplay = "block", !.loading = FALSE, !.dashboard = FALSE,
             !.shown = "empty"]

\* #uploadSection is displayed, when the inline style.display takes
\* precedence over the rule of the class hidden (inlineWins) and when the
\* rule of the class takes precedence (display: none !important)
uploadVisible(sc, inlineWins) ==
  IF inlineWins
  THEN sc.uploadDisplay = "block" \/ (sc.uploadDisplay = "" /\ ~sc.uploadHiddenClass)
  ELSE sc.uploadDisplay # "none" /\ ~sc.uploadHiddenClass

\* the sections that are displayed
visibleSections(sc, inlineWins) ==
  (IF uploadVisible(sc, inlineWins) THEN {"empty"} ELSE {})
    \cup (IF sc.loading THEN {"loading"} ELSE {})
    \cup (IF sc.dashboard THEN {"dashboard"} ELSE {})

(***************************************************************************)
(* ui.js: conversation list, filters                                       *)
(***************************************************************************)
IdsOf(convs) == [i \in 1..Len(convs) |-> convs[i].id]

\* renderConversationList sorts the array it is given in place, newest first
renderConversationList(conversations) == SortBy(conversations, ByTimeDesc)

\* the search terms typed in the title search box
TitleTerms == {<<>>, <<"h">>, <<"H", "I">>}

\* the text of a line of a message
LineText(line) ==
  CASE line = 1 -> <<"H", "i">>
    [] line = 2 -> <<"o", "h">>
    [] OTHER -> <<"A">>

\* the content of a message as text: its lines joined by "\n"
RECURSIVE ContentText(_)
ContentText(content) ==
  IF content = <<>> THEN <<>>
  ELSE IF Len(content) = 1 THEN LineText(content[1])
  ELSE LineText(content[1]) \o <<"\n">> \o ContentText(Tail(content))

\* the search terms typed in the content search box
ContentTerms == {<<>>, <<"h", "i">>, <<"O">>, <<"a">>}

SortKeys == {"time", "update", "create", "messages", "title", "favorites"}

\* conv.messages?.some(msg => msg.content.toLowerCase().includes(term.toLowerCase()))
ContentMatch(conv, term) ==
  \E i \in 1..Len(conv.messages) :
    Includes(toLowerCase(ContentText(conv.messages[i].content)), toLowerCase(term))

\* the switch (sortBy) of filterConversations (ui.js)
sortConversations(convs, sortBy) ==
  CASE sortBy = "time" -> SortBy(convs, ByTimeDesc)
    [] sortBy = "messages" -> SortBy(convs, ByMessagesDesc)
    [] sortBy = "title" -> SortBy(convs, ByTitle)
    [] sortBy = "favorites" -> LET IsFav(c) == c.id \in DOMAIN favorites IN FilterSeq(convs, IsFav)
    [] OTHER -> convs

\* the switch (sortBy) of filterConversationsByContent
sortConversationsByContent(convs, sortBy) ==
  CASE sortBy = "update" -> SortBy(convs, ByTimeDesc)
    [] sortBy = "create" -> SortBy(convs, ByTimeAsc)
    [] sortBy = "messages" -> SortBy(convs, ByMessagesDesc)
    [] sortBy = "title" -> SortBy(convs, ByTitle)
    [] sortBy = "favorites" -> LET IsFav(c) == c.id \in DOMAIN favorites IN FilterSeq(convs, IsFav)
    [] OTHER -> convs

\* selectConversation after the lookup, with currentConversation assigned
\* before the test of the result
selectAfterLookup_AssignFirst(current, conversation) == conversation

\* selectConversation after the lookup: the new currentConversation
selectAfterLookup(current, conversation) ==
  IF conversation = NoConv THEN current ELSE conversation

\* no toggleFavorite call is being followed
NoToggle == [id |-> "", inMemory |-> FALSE, inStore |-> FALSE, calls |-> 0, returned |-> "none"]

(***************************************************************************)
(* Initial state: the page has started on an empty database                *)
(***************************************************************************)
AppInit ==
  /\ dbConversations = <<>>
  /\ dbFavorites = {}
  /\ dbHighlights = {}
  /\ favSeq = 0
  /\ hlSeq = 0
  /\ pending = <<>>
  /\ favorites = <<>>
  /\ highlights = {}
  /\ currentConversation = NoConv
  /\ conversationTitle = <<>>
  /\ container = <<>>
  /\ allConversations = <<>>
  /\ filteredConversations = <<>>
  /\ conversationList = <<>>
  /\ screen = [uploadHiddenClass |-> FALSE, uploadDisplay |-> "block", loading |-> FALSE,
               dashboard |-> FALSE, backButton |-> FALSE, shown |-> "empty"]
  /\ lastLookup = "none"
  /\ uploads = 0
  /\ favoritesBefore = 0
  /\ initPc = "empty"
  /\ toggleLog = NoToggle
  /\ selectLog = ""

(***************************************************************************)
(* Upload: handleFile, reader.onload, loadDataFromDB                       *)
(***************************************************************************)
\* handleFile(file) for a file named *.json: showLoading, start reading
HandleFile(name) ==
  IF ~endsWithJson(name)
  THEN UNCHANGED vars
  ELSE /\ ~screen.dashboard
       /\ uploads < MaxUploads
       /\ Foreground(pending) < MaxPending
       /\ screen' = showLoading(screen)
       /\ pending' = Append(pending, Request("file", "readonly", "read", name, "fileLoaded"))
       /\ UNCHANGED <<dbVars, favorites, highlights, currentConversation, conversationTitle,
                      container, allConversations, filteredConversations, conversationList>>
       /\ uploads' = uploads + 1
       /\ favoritesBefore' = favSeq + Cardinality({j \in 1..Len(pending) : pending[j].k = "favAdded"})
       /\ UNCHANGED <<selectLog, lastLookup, initPc, toggleLog>>
       /\ UNCHANGED nonAppVars

\* reader.onload: JSON.parse, processConversationsData, saveConversations
FileLoaded(i, parses) ==
  /\ i \in 1..Len(pending)
  /\ pending[i].k = "fileLoaded"
  /\ IF parses
     THEN /\ pending' = Append(Without(pending, i),
                 saveConversations(processConversationsData(ExportFile(pending[i].key)), "saved"))
          /\ UNCHANGED screen
     ELSE /\ pending' = Without(pending, i)
          /\ screen' = showEmptyState(screen)
  /\ UNCHANGED <<dbVars, favorites, highlights, currentConversation, conversationTitle,
                 container, allConversations, filteredConversations, conversationList>>
  /\ UNCHANGED <<selectLog, lastLookup, uploads, favoritesBefore, initPc, toggleLog>>
  /\ UNCHANGED nonAppVars

\* saveConversations settled; on success loadDataFromDB starts: lists are
\* set and rendered, the full conversations are read back
SaveResolved(i, ok) ==
  /\ CanRun(i)
  /\ pending[i].k = "saved"
  /\ IF ok
     THEN /\ RunRequest(i)
          /\ allConversations' = pending[i].convs
          /\ filteredConversations' = renderConversationList(pending[i].convs)
          /\ conversationList' = IdsOf(renderConversationList(pending[i].convs))
          /\ pending' = Append(Without(pending, i), getManyConversations(pending[i].convs, "loaded"))
          /\ UNCHANGED screen
     ELSE /\ pending' = Without(pending, i)
          /\ screen' = showEmptyState(screen)
          /\ UNCHANGED <<dbVars, allConversations, filteredConversations, conversationList>>
  /\ UNCHANGED <<favorites, highlights, currentConversation, conversationTitle, container>>
  /\ UNCHANGED <<selectLog, lastLookup, uploads, favoritesBefore, initPc, toggleLog>>
  /\ UNCHANGED nonAppVars

\* the reads of loadDataFromDB settled: chart and lists drawn, showDashboard
LoadResolved(i, ok) ==
  /\ CanRun(i)
  /\ pending[i].k = "loaded"
  /\ pending' = Without(pending, i)
  /\ screen' = IF ok THEN showDashboard(screen) ELSE showEmptyState(screen)
  /\ UNCHANGED <<dbVars, favorites, highlights, currentConversation, conversationTitle,
                 container, allConversations, filteredConversations, conversationList>>
  /\ UNCHANGED <<selectLog, lastLookup, uploads, favoritesBefore, initPc, toggleLog>>
  /\ UNCHANGED nonAppVars

(***************************************************************************)
(* Selection and display                                                   *)
(***************************************************************************)
\* ids that can be clicked: list items and favorites list items
Clickable == Range(conversationList) \cup DOMAIN favorites

\* selectConversation(id) up to the await of chatDB.getConversation(id)
SelectCall(id) ==
  /\ screen.dashboard
  /\ id \in Clickable
  /\ pending' = Append(pending, getConversation(id, "select"))
  /\ selectLog' = id
  /\ UNCHANGED <<dbVars, favorites, highlights, uiVars>>
  /\ UNCHANGED <<lastLookup, uploads, favoritesBefore, initPc, toggleLog>>
  /\ UNCHANGED nonAppVars

\* a click on a list item while no other request is waiting
SelectConversation(id) ==
  /\ Len(pending) < MaxPending
  /\ SelectCall(id)

\* a click on a list item while the lookups of earlier clicks are awaited
SelectConversationAgain(id) ==
  /\ Len(pending) \in 1..(MaxPending + 1)
  /\ \A j \in 1..Len(pending) : pending[j].k = "select"
  /\ SelectCall(id)

\* the lookup settled: selectConversation continues after the await.
\* throwing: the messages on which marked.parse throws.
SelectResolved(i, ok, throwing) ==
  /\ CanRun(i)
  /\ pending[i].k = "select"
  /\ LET conversation == IF ok THEN Lookup(pending[i].key) ELSE NoConv
         shown == displayConversation(conversation, throwing, container)
     IN /\ throwing \subseteq 1..Len(conversation.messages)
        /\ IF ok THEN RunRequest(i) ELSE UNCHANGED dbVars
        /\ currentConversation' = selectAfterLookup(currentConversation, conversation)
        /\ conversationTitle' = IF conversation = NoConv THEN conversationTitle ELSE shown.title
        /\ container' = IF conversation = NoConv THEN container ELSE shown.container
        /\ lastLookup' = IF ~ok THEN "error" ELSE IF conversation = NoConv THEN "absent" ELSE "found"
  /\ UNCHANGED <<uploads, favoritesBefore, initPc, toggleLog, selectLog>>
  /\ pending' = Without(pending, i)
  /\ UNCHANGED <<favorites, highlights, allConversations, filteredConversations,
                 conversationList, screen>>
  /\ UNCHANGED nonAppVars

\* filterConversations(searchTerm, sortBy)
FilterConversations(term, sortBy) ==
  /\ screen.dashboard
  /\ LET TitleMatch(c) == Includes(toLowerCase(c.title), toLowerCase(term))
         filtered == sortConversations(FilterSeq(allConversations, TitleMatch), sortBy)
     IN /\ filteredConversations' = renderConversationList(filtered)
        /\ conversationList' = IdsOf(renderConversationList(filtered))
  /\ UNCHANGED <<dbVars, pending, favorites, highlights, currentConversation,
                 conversationTitle, container, allConversations, screen>>
  /\ UNCHANGED <<selectLog, lastLookup, uploads, favoritesBefore, initPc, toggleLog>>
  /\ UNCHANGED nonAppVars

\* filterConversationsByContent(searchTerm, sortBy)
FilterConversationsByContent(term, sortBy) ==
  /\ screen.dashboard
  /\ LET Match(c) == ContentMatch(c, term)
         filtered == sortConversationsByContent(FilterSeq(allConversations, Match), sortBy)
     IN /\ filteredConversations' = filtered
        /\ conversationList' = IdsOf(filtered)
  /\ UNCHANGED <<dbVars, pending, favorites, highlights, currentConversation,
                 conversationTitle, container, allConversations, screen>>
  /\ UNCHANGED <<selectLog, lastLookup, uploads, favoritesBefore, initPc, toggleLog>>
  /\ UNCHANGED nonAppVars

(***************************************************************************)
(* Favorites and highlights                                                *)
(***************************************************************************)
\* an isFavorite that finds every conversation in the map
isFavorite_Always(conversationId) == TRUE

\* FavoritesManager.isFavorite(conversationId)
isFavorite(conversationId) == conversationId \in DOMAIN favorites

\* chatDB.isFavorite(conversationId)
isStoredFavorite(conversationId) == \E f \in dbFavorites : f.conversationId = conversationId

\* toggleFavorite(id) is called: the second of two calls made one after the
\* other on the same id, or the first call of a new pair, which records the
\* membership it finds; overlapping calls are not followed
logCall(id) ==
  IF \E j \in 1..Len(pending) : pending[j].k \in {"favAdded", "favRemoved"} THEN NoToggle
  ELSE IF toggleLog.id = id /\ toggleLog.calls = 1 /\ toggleLog.returned # "none"
       THEN [toggleLog EXCEPT !.calls = 2, !.returned = "none"]
  ELSE [id |-> id, inMemory |-> isFavorite(id), inStore |-> isStoredFavorite(id),
        calls |-> 1, returned |-> "none"]

\* toggleFavorite returns value, or throws with the rejected request
logReturn(ok, value) ==
  IF toggleLog.calls = 0 \/ ~ok THEN NoToggle
  ELSE [toggleLog EXCEPT !.returned = IF value THEN "true" ELSE "false"]

\* UIManager.toggleFavorite -> FavoritesManager.toggleFavorite, up to the
\* await of chatDB.removeFavorite / chatDB.addFavorite
ToggleCall(id) ==
  /\ screen.dashboard
  /\ id \in Range(conversationList)
  /\ IF isFavorite(id)
     THEN pending' = Append(pending, removeFavorite(id, "favRemoved"))
     ELSE /\ favSeq + Cardinality({j \in 1..Len(pending) : pending[j].k = "favAdded"}) < MaxFavSeq
          /\ pending' = Append(pending, addFavorite(id, "", uploads, "favAdded"))
  /\ UNCHANGED <<dbVars, favorites, highlights, uiVars>>
  /\ toggleLog' = logCall(id)
  /\ UNCHANGED <<selectLog, lastLookup, uploads, favoritesBefore, initPc>>
  /\ UNCHANGED nonAppVars

\* a click on the favorite button while no more than MaxPending - 1 other
\* user actions await the store
ToggleFavorite(id) == Foreground(pending) < MaxPending /\ ToggleCall(id)

\* a second click on the favorite button of id while the toggleFavorite of
\* the first click awaits the store
ToggleFavoriteAgain(id) ==
  /\ Cardinality({j \in 1..Len(pending) :
                    pending[j].k \in {"favAdded", "favRemoved"} /\ pending[j].key = id}) = 1
  /\ ToggleCall(id)

\* chatDB.addFavorite settled: FavoritesManager.addFavorite sets the entry
FavAddResolved(i, ok) ==
  /\ CanRun(i)
  /\ pending[i].k = "favAdded"
  /\ IF ok
     THEN /\ RunRequest(i)
          /\ favorites' = [c \in DOMAIN favorites \cup {pending[i].key} |->
                             IF c = pending[i].key
                             THEN [id |-> favSeq + 1, conversationId |-> c, note |-> "", timestamp |-> uploads]
                             ELSE favorites[c]]
     ELSE UNCHANGED <<dbVars, favorites>>
  /\ pending' = Without(pending, i)
  /\ UNCHANGED <<highlights, uiVars>>
  /\ toggleLog' = logReturn(ok, TRUE)
  /\ UNCHANGED <<selectLog, lastLookup, uploads, favoritesBefore, initPc>>
  /\ UNCHANGED nonAppVars

\* chatDB.removeFavorite settled: FavoritesManager.removeFavorite deletes
FavRemoveResolved(i, ok) ==
  /\ CanRun(i)
  /\ pending[i].k = "favRemoved"
  /\ IF ok
     THEN /\ RunRequest(i)
          /\ favorites' = [c \in DOMAIN favorites \ {pending[i].key} |-> favorites[c]]
     ELSE UNCHANGED <<dbVars, favorites>>
  /\ pending' = Without(pending, i)
  /\ UNCHANGED <<highlights, uiVars>>
  /\ toggleLog' = logReturn(ok, FALSE)
  /\ UNCHANGED <<selectLog, lastLookup, uploads, favoritesBefore, initPc>>
  /\ UNCHANGED nonAppVars

\* FavoritesManager.addFavorite called by itself, up to the await of
\* chatDB.addFavorite: it does not test isFavorite
AddFavorite(id) ==
  /\ favSeq + Cardinality({j \in 1..Len(pending) : pending[j].k = "favAdded"}) < MaxFavSeq
  /\ pending' = Append(pending, addFavorite(id, "", uploads, "favAdded"))
  /\ toggleLog' = NoToggle
  /\ UNCHANGED <<dbVars, favorites, highlights, uiVars>>
  /\ UNCHANGED <<selectLog, lastLookup, uploads, favoritesBefore, initPc>>
  /\ UNCHANGED nonAppVars

\* FavoritesManager.removeFavorite called by itself, up to the await of
\* chatDB.removeFavorite
RemoveFavorite(id) ==
  /\ pending' = Append(pending, removeFavorite(id, "favRemoved"))
  /\ toggleLog' = NoToggle
  /\ UNCHANGED <<dbVars, favorites, highlights, uiVars>>
  /\ UNCHANGED <<selectLog, lastLookup, uploads, favoritesBefore, initPc>>
  /\ UNCHANGED nonAppVars

\* FavoritesManager.init called by itself, up to the await of getFavorites
FavoritesInit ==
  /\ pending' = Append(pending, getFavorites("favInit"))
  /\ UNCHANGED <<dbVars, favorites, highlights, uiVars>>
  /\ UNCHANGED <<selectLog, lastLookup, uploads, favoritesBefore, initPc, toggleLog>>
  /\ UNCHANGED nonAppVars

\* the notes a favorite is given
Notes == {"n1", "n2"}

\* FavoritesManager.updateNote(conversationId, note) up to the await of
\* chatDB.removeFavorite; the request carries the note for the continuation
UpdateNote(conversationId, note) ==
  IF ~isFavorite(conversationId)
  THEN UNCHANGED vars
  ELSE /\ favSeq < MaxFavSeq + MaxNoteUpdates
       /\ pending' = Append(pending,
            [removeFavorite(conversationId, "noteRemoved") EXCEPT !.note = note])
       /\ toggleLog' = NoToggle
       /\ UNCHANGED <<dbVars, favorites, highlights, uiVars>>
       /\ UNCHANGED <<selectLog, lastLookup, uploads, favoritesBefore, initPc>>
       /\ UNCHANGED nonAppVars

\* chatDB.removeFavorite settled: updateNote calls chatDB.addFavorite with
\* the note, or throws
NoteRemoveResolved(i, ok) ==
  /\ CanRun(i)
  /\ pending[i].k = "noteRemoved"
  /\ IF ok
     THEN /\ RunRequest(i)
          /\ pending' = Append(Without(pending, i),
               addFavorite(pending[i].key, pending[i].note, uploads, "noteAdded"))
     ELSE /\ pending' = Without(pending, i)
          /\ UNCHANGED dbVars
  /\ UNCHANGED <<favorites, highlights, uiVars>>
  /\ UNCHANGED <<selectLog, lastLookup, uploads, favoritesBefore, initPc, toggleLog>>
  /\ UNCHANGED nonAppVars

\* chatDB.addFavorite settled: updateNote sets the note of the entry of the
\* map, if there is one
NoteAddResolved(i, ok) ==
  /\ CanRun(i)
  /\ pending[i].k = "noteAdded"
  /\ IF ok
     THEN /\ RunRequest(i)
          /\ favorites' = IF pending[i].key \in DOMAIN favorites
                          THEN [favorites EXCEPT ![pending[i].key].note = pending[i].note]
                          ELSE favorites
     ELSE UNCHANGED <<dbVars, favorites>>
  /\ pending' = Without(pending, i)
  /\ UNCHANGED <<highlights, uiVars>>
  /\ UNCHANGED <<selectLog, lastLookup, uploads, favoritesBefore, initPc, toggleLog>>
  /\ UNCHANGED nonAppVars

\* UIManager.highlightMessage(messageId) with a text selection, up to the
\* await of chatDB.addHighlight
HighlightMessage(messageId) ==
  /\ screen.dashboard
  /\ currentConversation # NoConv
  /\ \E j \in 1..Len(container) : container[j].id = messageId
  /\ Len(pending) < MaxPending
  /\ hlSeq + Cardinality({j \in 1..Len(pending) : pending[j].k = "hlAdded"}) < MaxHlSeq
  /\ pending' = Append(pending, addHighlight(currentConversation.id, messageId, "hlAdded"))
  /\ UNCHANGED <<dbVars, favorites, highlights, uiVars>>
  /\ UNCHANGED <<selectLog, lastLookup, uploads, favoritesBefore, initPc, toggleLog>>
  /\ UNCHANGED nonAppVars

\* chatDB.addHighlight settled: HighlightsManager.addHighlight pushes
HlAddResolved(i, ok) ==
  /\ CanRun(i)
  /\ pending[i].k = "hlAdded"
  /\ IF ok
     THEN /\ RunRequest(i)
          /\ highlights' = highlights \cup
               {[id |-> hlSeq + 1, conversationId |-> pending[i].key, messageId |-> pending[i].msg]}
     ELSE UNCHANGED <<dbVars, highlights>>
  /\ pending' = Without(pending, i)
  /\ UNCHANGED <<favorites, uiVars>>
  /\ UNCHANGED <<selectLog, lastLookup, uploads, favoritesBefore, initPc, toggleLog>>
  /\ UNCHANGED nonAppVars

\* HighlightsManager.addHighlight(conversationId, messageId, text) up to
\* the await of chatDB.addHighlight
AddHighlight(conversationId, messageId) ==
  /\ hlSeq < MaxHighlights
  /\ pending' = Append(pending, addHighlight(conversationId, messageId, "hlAdded"))
  /\ UNCHANGED <<dbVars, favorites, highlights, uiVars>>
  /\ UNCHANGED <<selectLog, lastLookup, uploads, favoritesBefore, initPc, toggleLog>>
  /\ UNCHANGED nonAppVars

\* HighlightsManager.removeHighlight(highlightId, conversationId) up to the
\* await of chatDB.removeHighlight
RemoveHighlight(highlightId, conversationId) ==
  /\ pending' = Append(pending, removeHighlight(highlightId, conversationId, "hlRemoved"))
  /\ UNCHANGED <<dbVars, favorites, highlights, uiVars>>
  /\ UNCHANGED <<selectLog, lastLookup, uploads, favoritesBefore, initPc, toggleLog>>
  /\ UNCHANGED nonAppVars

\* chatDB.removeHighlight settled: the highlight with that id is spliced
\* out of the array of the given conversation
HlRemoveResolved(i, ok) ==
  /\ CanRun(i)
  /\ pending[i].k = "hlRemoved"
  /\ IF ok
     THEN /\ RunRequest(i)
          /\ highlights' = {h \in highlights :
                              ~(h.conversationId = pending[i].key /\ h.id = pending[i].msg)}
     ELSE UNCHANGED <<dbVars, highlights>>
  /\ pending' = Without(pending, i)
  /\ UNCHANGED <<favorites, uiVars>>
  /\ UNCHANGED <<selectLog, lastLookup, uploads, favoritesBefore, initPc, toggleLog>>
  /\ UNCHANGED nonAppVars

\* HighlightsManager.getCount(): the lengths of the arrays of the map added up
getCount ==
  LET RECURSIVE Sum(_)
      Sum(S) == IF S = {} THEN 0
                ELSE LET c == CHOOSE x \in S : TRUE
                     IN Cardinality({h \in highlights : h.conversationId = c}) + Sum(S \ {c})
  IN Sum({h.conversationId : h \in highlights})

\* HighlightsManager.getAllHighlights(): the arrays of the map put together
getAllHighlightsInMemory ==
  UNION {{h \in highlights : h.conversationId = c} : c \in {h.conversationId : h \in highlights}}

(***************************************************************************)
(* Reset: backToUpload, clearDatabase, FavoritesManager.init               *)
(***************************************************************************)
\* backToUpload (chat.js): clearDatabase() is started and not awaited, the
\* upload section is shown.  clearDatabase runs up to its await of clearAll.
BackToUpload ==
  /\ screen.backButton
  /\ Foreground(pending) < MaxPending
  /\ \A j \in 1..Len(pending) : pending[j].k \notin {"cleared", "clearedFailed"}
  /\ pending' = pending \o clearAll("cleared")
  /\ screen' = [showEmptyState(screen) EXCEPT !.backButton = FALSE]
  /\ UNCHANGED <<dbVars, favorites, highlights, currentConversation, conversationTitle,
                 container, allConversations, filteredConversations, conversationList>>
  /\ UNCHANGED <<selectLog, lastLookup, uploads, favoritesBefore, initPc, toggleLog>>
  /\ UNCHANGED nonAppVars

\* one of the three clear requests of clearAll settled.  Promise.all is
\* fulfilled by the last success (clearDatabase goes on to
\* favoritesManager.init and its getFavorites) and rejected by the first
\* failure (clearDatabase ends; the other requests still run).
ClearResolved(i, ok) ==
  /\ CanRun(i)
  /\ pending[i].k \in {"cleared", "clearedFailed"}
  /\ IF ok THEN RunRequest(i) ELSE UNCHANGED dbVars
  /\ LET rest == Without(pending, i)
         last == \A j \in 1..Len(rest) : rest[j].k # "cleared"
     IN pending' =
          IF pending[i].k = "cleared" /\ ok /\ last THEN Append(rest, getFavorites("favInit"))
          ELSE IF pending[i].k = "cleared" /\ ~ok
               THEN [j \in 1..Len(rest) |->
                       IF rest[j].k = "cleared" THEN [rest[j] EXCEPT !.k = "clearedFailed"]
                       ELSE rest[j]]
          ELSE rest
  /\ UNCHANGED <<favorites, highlights, uiVars>>
  /\ UNCHANGED <<selectLog, lastLookup, uploads, favoritesBefore, initPc, toggleLog>>
  /\ UNCHANGED nonAppVars

\* the favorites of the store in key order (store.getAll())
RECURSIVE FavoritesInKeyOrder(_)
FavoritesInKeyOrder(favs) ==
  IF favs = {} THEN <<>>
  ELSE LET first == CHOOSE f \in favs : \A g \in favs : f.id <= g.id
       IN <<first>> \o FavoritesInKeyOrder(favs \ {first})

\* FavoritesManager.init: getFavorites settled; the map is cleared and the
\* conversation of the first favorite is looked up
FavInitResolved(i, ok) ==
  /\ CanRun(i)
  /\ pending[i].k = "favInit"
  /\ IF ok
     THEN /\ RunRequest(i)
          /\ favorites' = <<>>
          /\ LET favs == FavoritesInKeyOrder(dbFavorites)
             IN pending' =
                  IF favs = <<>> THEN Without(pending, i)
                  ELSE Append(Without(pending, i),
                              [getConversation(favs[1].conversationId, "favInitGet")
                                 EXCEPT !.favs = favs])
     ELSE /\ pending' = Without(pending, i)
          /\ UNCHANGED <<dbVars, favorites>>
  /\ UNCHANGED <<highlights, uiVars>>
  /\ UNCHANGED <<selectLog, lastLookup, uploads, favoritesBefore, initPc, toggleLog>>
  /\ UNCHANGED nonAppVars

\* FavoritesManager.init: the lookup for one favorite settled; the favorite
\* is put in the map and the next one is looked up
FavInitGetResolved(i, ok) ==
  /\ CanRun(i)
  /\ pending[i].k = "favInitGet"
  /\ IF ok
     THEN /\ RunRequest(i)
          /\ LET favs == pending[i].favs
                 fav == favs[1]
             IN /\ favorites' = [c \in DOMAIN favorites \cup {fav.conversationId} |->
                                   IF c = fav.conversationId THEN fav ELSE favorites[c]]
                /\ pending' =
                     IF Len(favs) = 1 THEN Without(pending, i)
                     ELSE Append(Without(pending, i),
                                 [getConversation(favs[2].conversationId, "favInitGet")
                                    EXCEPT !.favs = Tail(favs)])
     ELSE /\ pending' = Without(pending, i)
          /\ UNCHANGED <<dbVars, favorites>>
  /\ UNCHANGED <<highlights, uiVars>>
  /\ UNCHANGED <<selectLog, lastLookup, uploads, favoritesBefore, initPc, toggleLog>>
  /\ UNCHANGED nonAppVars

(***************************************************************************)
(* Export of the favorites: exportFavorites,                               *)
(* generateAllConversationsMarkdown, downloadMarkdown                      *)
(***************************************************************************)
\* the value null; store.get gives undefined (NoConv) for a missing key
JsNull == [NoConv EXCEPT !.id = "null"]

NoDownload == [outcome |-> "none", favorites |-> <<>>, file |-> <<>>]

\* FavoritesManager.getAllFavorites: the favorites of the map, latest first
\* (the sort is stable; the map holds them in the order they were set)
RECURSIVE getAllFavorites(_)
getAllFavorites(favs) ==
  IF favs = {} THEN <<>>
  ELSE LET first == CHOOSE f \in favs : \A g \in favs :
                      \/ f.timestamp > g.timestamp
                      \/ f.timestamp = g.timestamp /\ f.id <= g.id
       IN <<first>> \o getAllFavorites(favs \ {first})

\* the part of the Markdown file written for one conversation
Section(conv) ==
  [title |-> conv.title, create_time |-> conv.create_time,
   messages_count |-> conv.messageCount, messages |-> conv.messages]

\* generateAllConversationsMarkdown: reading conv.title of undefined throws
generateAllConversationsMarkdown(conversations) ==
  IF \E j \in 1..Len(conversations) : conversations[j] = NoConv
  THEN [threw |-> TRUE, markdown |-> <<>>]
  ELSE [threw |-> FALSE,
        markdown |-> [j \in 1..Len(conversations) |-> Section(conversations[j])]]

\* exportFavorites up to the await of the getConversation calls, which are
\* made in one task: no other transaction starts between them
ExportFavorites ==
  /\ screen.dashboard
  /\ Foreground(pending) < MaxPending
  /\ LET favs == getAllFavorites({favorites[c] : c \in DOMAIN favorites})
     IN IF favs = <<>>
        THEN /\ download' = [NoDownload EXCEPT !.outcome = "returned"]
             /\ UNCHANGED pending
        ELSE /\ download' = [NoDownload EXCEPT !.outcome = "pending", !.favorites = favs]
             /\ pending' = Append(pending,
                                  [getManyConversations(<<>>, "exported") EXCEPT !.favs = favs])
  /\ UNCHANGED <<dbVars, favorites, highlights, uiVars>>
  /\ UNCHANGED <<selectLog, lastLookup, uploads, favoritesBefore, initPc, toggleLog>>
  /\ UNCHANGED <<parseVars, viewVars, trendVars>>

\* exportFavorites after the await: filter, generate, download
ExportResolved(i, ok) ==
  /\ CanRun(i)
  /\ pending[i].k = "exported"
  /\ LET favs == pending[i].favs
         conversations == [j \in 1..Len(favs) |-> Lookup(favs[j].conversationId)]
         validConversations == SelectSeq(conversations, LAMBDA conv : conv # JsNull)
         generated == generateAllConversationsMarkdown(validConversations)
     IN download' =
          IF ~ok THEN [NoDownload EXCEPT !.outcome = "rejected", !.favorites = favs]
          ELSE IF generated.threw
               THEN [NoDownload EXCEPT !.outcome = "threw", !.favorites = favs]
          ELSE [outcome |-> "downloaded", favorites |-> favs, file |-> generated.markdown]
  /\ pending' = Without(pending, i)
  /\ UNCHANGED <<dbVars, favorites, highlights, uiVars>>
  /\ UNCHANGED <<selectLog, lastLookup, uploads, favoritesBefore, initPc, toggleLog>>
  /\ UNCHANGED <<parseVars, viewVars, trendVars>>

(***************************************************************************)
(* Trend chart: aggregateDailyMessageCounts, renderDailyTrendChart.  A     *)
(* date is the number of its day since the epoch (UTC).                    *)
(***************************************************************************)
DaySeconds == 86400

\* bars of the chart
ChartBars == 20

\* conversations loadDataFromDB reads back for the chart
TrendSlice == 50

\* new Date(createTime * 1000).toISOString().split("T")[0]
DateKey(createTime) == createTime \div DaySeconds

\* conversation i of n, in the order of the store: two messages on its own
\* day when the day is odd, one when it is even; the conversation `hole'
\* has a message without createTime instead
TrendConversation(i, n, hole, newestFirst) ==
  LET day == IF newestFirst THEN n + 1 - i ELSE i
  IN [messages |->
        IF i = hole THEN << [createTime |-> 0] >>
        ELSE IF day % 2 = 0 THEN << [createTime |-> day * DaySeconds] >>
        ELSE << [createTime |-> day * DaySeconds + DaySeconds - 1],
                [createTime |-> day * DaySeconds] >>]

TrendInputs ==
  UNION {{[i \in 1..n |-> TrendConversation(i, n, hole, newestFirst)] :
            hole \in 0..n, newestFirst \in BOOLEAN} : n \in 1..MaxTrendConversations}

\* dailyCounts[dateKey] of aggregateDailyMessageCounts
CountOn(conversations, date) ==
  SumSeq([i \in 1..Len(conversations) |->
            Cardinality({j \in 1..Len(conversations[i].messages) :
                           /\ conversations[i].messages[j].createTime # 0
                           /\ DateKey(conversations[i].messages[j].createTime) = date})])

\* the keys of dailyCounts
DateKeys(conversations) ==
  UNION {{DateKey(conversations[i].messages[j].createTime) :
            j \in {k \in 1..Len(conversations[i].messages) :
                     conversations[i].messages[k].createTime # 0}} :
         i \in 1..Len(conversations)}

\* sort(([dateA], [dateB]) => new Date(dateA) - new Date(dateB))
RECURSIVE SortDates(_)
SortDates(dates) ==
  IF dates = {} THEN <<>>
  ELSE LET first == CHOOSE d \in dates : \A e \in dates : d <= e
       IN <<first>> \o SortDates(dates \ {first})

aggregateDailyMessageCounts(conversations) ==
  LET sorted == SortDates(DateKeys(conversations))
  IN [k \in 1..Len(sorted) |-> [date |-> sorted[k], count |-> CountOn(conversations, sorted[k])]]

NoChart == [rendered |-> FALSE, bars |-> <<>>]

\* renderDailyTrendChart of js/ui.js: a bar for each item of dailyData.slice(-20)
renderDailyTrendChart(dailyData) ==
  [rendered |-> TRUE,
   bars |-> SubSeq(dailyData, Max2(Len(dailyData) - ChartBars, 0) + 1, Len(dailyData))]

\* renderDailyTrendChart of part_000: a bar for each of the 20 days that end
\* today, with dataMap.get(dateStr) || 0 as its count
renderLast20Days(dailyData, now) ==
  [rendered |-> TRUE,
   bars |-> [i \in 1..ChartBars |->
               LET date == now - (ChartBars - i)
               IN [date |-> date,
                   count |-> IF \E k \in 1..Len(dailyData) : dailyData[k].date = date
                             THEN dailyData[CHOOSE k \in 1..Len(dailyData) :
                                              dailyData[k].date = date].count
                             ELSE 0]]]

ExportIdle == download = NoDownload

TrendIdle ==
  /\ trendConversations = <<>>
  /\ today = 0
  /\ chart = NoChart

ReportIdle == ExportIdle /\ TrendIdle

\* the dashboard is about to be drawn for the conversations of the store; the
\* latest message is of today or of yesterday
TrendInit ==
  /\ trendConversations \in TrendInputs
  /\ today \in {Len(trendConversations), Len(trendConversations) + 1}
  /\ chart = NoChart

\* loadDataFromDB of js/chat.js with the chart of js/ui.js
RenderTrend ==
  /\ chart' = renderDailyTrendChart(aggregateDailyMessageCounts(trendConversations))
  /\ UNCHANGED <<trendConversations, today, download>>
  /\ UNCHANGED <<parseVars, appVars, viewVars>>

\* loadDataFromDB of js/main.js: the chart is computed from the first 50
\* conversations, read back from the store
RenderTrendStored ==
  /\ LET conversationsWithMessages ==
           SubSeq(trendConversations, 1, Min2(TrendSlice, Len(trendConversations)))
     IN chart' = renderDailyTrendChart(aggregateDailyMessageCounts(conversationsWithMessages))
  /\ UNCHANGED <<trendConversations, today, download>>
  /\ UNCHANGED <<parseVars, appVars, viewVars>>

\* loadDataFromDB of js/chat.js with the chart of part_000
RenderTrendLast20Days ==
  /\ chart' = renderLast20Days(aggregateDailyMessageCounts(trendConversations), today)
  /\ UNCHANGED <<trendConversations, today, download>>
  /\ UNCHANGED <<parseVars, appVars, viewVars>>

(***************************************************************************)
(* Startup: initApp on the stores an earlier visit left behind             *)
(***************************************************************************)
\* the conversations store after the upload of the given files in turn
RECURSIVE StoreAfterUploads(_)
StoreAfterUploads(names) ==
  IF names = <<>> THEN <<>>
  ELSE LET before == StoreAfterUploads(SubSeq(names, 1, Len(names) - 1))
           convs == processConversationsData(ExportFile(names[Len(names)]))
       IN [id \in DOMAIN before \cup Range(IdsOf(convs)) |->
             IF id \in Range(IdsOf(convs))
             THEN convs[CHOOSE k \in 1..Len(convs) : convs[k].id = id]
             ELSE before[id]]

\* the conversations stores found at startup
StartupStores == {StoreAfterUploads(names) : names \in {<<>>, <<"A">>, <<"B">>, <<"A", "B">>}}

\* the favorites stores found at startup
StartupFavorites ==
  SUBSET {[id |-> 1, conversationId |-> "c1", note |-> "", timestamp |-> 0],
          [id |-> 2, conversationId |-> "c2", note |-> "", timestamp |-> 0]}

\* the highlights stores found at startup
StartupHighlights == SUBSET {[id |-> 1, conversationId |-> "c2", messageId |-> 1]}

\* the keys of an object store in ascending order
ConvOrder == <<"c1", "c2", "c3">>

\* store.getAll() on the conversations store
ConversationsInKeyOrder(store) ==
  LET InStore(id) == id \in DOMAIN store
      ids == SelectSeq(ConvOrder, InStore)
  IN [k \in 1..Len(ids) |-> store[ids[k]]]

\* getAllConversations(includeMessages = false): the messages are left out
getAllConversations(store) ==
  LET all == ConversationsInKeyOrder(store)
  IN [k \in 1..Len(all) |-> [all[k] EXCEPT !.messages = <<>>]]

\* initApp never finds stored data
hasStoredData_Never(conversations) == FALSE

\* initApp: conversations.length > 0
hasStoredData(conversations) == Len(conversations) > 0

StartupInit ==
  /\ dbConversations \in StartupStores
  /\ dbFavorites \in StartupFavorites
  /\ dbHighlights \in StartupHighlights
  /\ favSeq = MaxFavSeq
  /\ hlSeq = MaxHlSeq
  /\ pending = <<>>
  /\ favorites = <<>>
  /\ highlights = {}
  /\ currentConversation = NoConv
  /\ conversationTitle = <<>>
  /\ container = <<>>
  /\ allConversations = <<>>
  /\ filteredConversations = <<>>
  /\ conversationList = <<>>
  /\ screen = [uploadHiddenClass |-> FALSE, uploadDisplay |-> "", loading |-> FALSE,
               dashboard |-> FALSE, backButton |-> FALSE, shown |-> "none"]
  /\ lastLookup = "none"
  /\ uploads = 0
  /\ favoritesBefore = 0
  /\ initPc = "open"
  /\ toggleLog = NoToggle
  /\ selectLog = ""

\* the catch block of initApp
InitFailed ==
  /\ pending' = <<>>
  /\ screen' = showEmptyState(screen)
  /\ initPc' = "failed"

\* chatDB.init settled; favoritesManager.init asks for the favorites
StartOpened(ok) ==
  /\ initPc = "open"
  /\ IF ok
     THEN /\ pending' = <<getFavorites("startFavorites")>>
          /\ initPc' = "favorites"
          /\ UNCHANGED screen
     ELSE InitFailed
  /\ UNCHANGED <<dbVars, favorites, highlights, currentConversation, conversationTitle,
                 container, allConversations, filteredConversations, conversationList>>
  /\ UNCHANGED <<selectLog, lastLookup, uploads, favoritesBefore, toggleLog>>
  /\ UNCHANGED nonAppVars

\* favoritesManager.init: getFavorites settled; the map is cleared and the
\* conversation of the first favorite is looked up, or with no favorite
\* highlightsManager.init asks for the highlights
StartFavorites(ok) ==
  /\ initPc = "favorites"
  /\ pending # <<>> /\ pending[1].k = "startFavorites"
  /\ IF ok
     THEN /\ favorites' = <<>>
          /\ LET favs == FavoritesInKeyOrder(dbFavorites)
             IN pending' =
                  IF favs = <<>> THEN <<Request("highlights", "readonly", "getAll", "", "startHighlights")>>
                  ELSE <<[getConversation(favs[1].conversationId, "startFavoriteGet")
                            EXCEPT !.favs = favs]>>
          /\ initPc' = IF dbFavorites = {} THEN "highlights" ELSE "favorites"
          /\ UNCHANGED screen
     ELSE InitFailed /\ UNCHANGED favorites
  /\ UNCHANGED <<dbVars, highlights, currentConversation, conversationTitle,
                 container, allConversations, filteredConversations, conversationList>>
  /\ UNCHANGED <<selectLog, lastLookup, uploads, favoritesBefore, toggleLog>>
  /\ UNCHANGED nonAppVars

\* favoritesManager.init: the lookup for one favorite settled
StartFavoriteGet(ok) ==
  /\ initPc = "favorites"
  /\ pending # <<>> /\ pending[1].k = "startFavoriteGet"
  /\ IF ok
     THEN LET favs == pending[1].favs
              fav == favs[1]
          IN /\ favorites' = [c \in DOMAIN favorites \cup {fav.conversationId} |->
                                IF c = fav.conversationId THEN fav ELSE favorites[c]]
             /\ pending' =
                  IF Len(favs) = 1 THEN <<Request("highlights", "readonly", "getAll", "", "startHighlights")>>
                  ELSE <<[getConversation(favs[2].conversationId, "startFavoriteGet")
                            EXCEPT !.favs = Tail(favs)]>>
             /\ initPc' = IF Len(favs) = 1 THEN "highlights" ELSE "favorites"
             /\ UNCHANGED screen
     ELSE InitFailed /\ UNCHANGED favorites
  /\ UNCHANGED <<dbVars, highlights, currentConversation, conversationTitle,
                 container, allConversations, filteredConversations, conversationList>>
  /\ UNCHANGED <<selectLog, lastLookup, uploads, favoritesBefore, toggleLog>>
  /\ UNCHANGED nonAppVars

\* highlightsManager.init: getAllHighlights settled; the listeners are set
\* up and initApp asks for the conversations
StartHighlights(ok) ==
  /\ initPc = "highlights"
  /\ IF ok
     THEN /\ highlights' = dbHighlights
          /\ pending' = <<Request("conversations", "readonly", "getAll", "", "startConversations")>>
          /\ initPc' = "conversations"
          /\ UNCHANGED screen
     ELSE InitFailed /\ UNCHANGED highlights
  /\ UNCHANGED <<dbVars, favorites, currentConversation, conversationTitle,
                 container, allConversations, filteredConversations, conversationList>>
  /\ UNCHANGED <<selectLog, lastLookup, uploads, favoritesBefore, toggleLog>>
  /\ UNCHANGED nonAppVars

\* getAllConversations settled: with stored data loadDataFromDB sets and
\* renders the lists and reads the full conversations back, else
\* showEmptyState
StartConversations(ok) ==
  /\ initPc = "conversations"
  /\ IF ok
     THEN LET conversations == getAllConversations(dbConversations)
          IN IF hasStoredData(conversations)
             THEN /\ allConversations' = conversations
                  /\ filteredConversations' = renderConversationList(conversations)
                  /\ conversationList' = IdsOf(renderConversationList(conversations))
                  /\ pending' = <<getManyConversations(conversations, "startLoaded")>>
                  /\ initPc' = "load"
                  /\ UNCHANGED screen
             ELSE /\ pending' = <<>>
                  /\ screen' = showEmptyState(screen)
                  /\ initPc' = "empty"
                  /\ UNCHANGED <<allConversations, filteredConversations, conversationList>>
     ELSE InitFailed /\ UNCHANGED <<allConversations, filteredConversations, conversationList>>
  /\ UNCHANGED <<dbVars, favorites, highlights, currentConversation, conversationTitle, container>>
  /\ UNCHANGED <<selectLog, lastLookup, uploads, favoritesBefore, toggleLog>>
  /\ UNCHANGED nonAppVars

\* the reads of loadDataFromDB settled: chart and lists drawn, showDashboard
StartLoaded(ok) ==
  /\ initPc = "load"
  /\ IF ok
     THEN /\ pending' = <<>>
          /\ screen' = showDashboard(screen)
          /\ initPc' = "shown"
     ELSE InitFailed
  /\ UNCHANGED <<dbVars, favorites, highlights, currentConversation, conversationTitle,
                 container, allConversations, filteredConversations, conversationList>>
  /\ UNCHANGED <<selectLog, lastLookup, uploads, favoritesBefore, toggleLog>>
  /\ UNCHANGED nonAppVars

(***************************************************************************)
(* The parser as a state machine: processConversationsData runs over the   *)
(* conversations of the parsed file one by one, extractMessages one loop   *)
(* iteration at a time.                                                    *)
(***************************************************************************)
IdleWalk == [node |-> Null, msgs |-> <<>>, running |-> FALSE]

\* the exported conversations the parser is run on
RawConversations ==
  { [id |-> "c1", title |-> "t1", create_time |-> 1, current_node |-> cur,
     mapping |-> [n \in NodeIds |-> MkNode(n, par[n], kind[n])]] :
      cur \in {Null, MaxNodes, MissingId},
      par \in [NodeIds -> {Null, MissingId} \cup NodeIds],
      kind \in {k \in [NodeIds -> NodeKinds] :
                  Cardinality({n \in NodeIds : k[n] \in SpecialKinds}) <= MaxSpecial} }

\* conversations without a mapping
MalformedConversations ==
  { [id |-> "c0", title |-> "t0", create_time |-> 1, current_node |-> cur] :
      cur \in {Null, MaxNodes, MissingId} }

\* the export files the parser is run on: one conversation, or a
\* conversation without mapping before or after the first one of file A
ParseFiles ==
  {<<c>> : c \in RawConversations \cup MalformedConversations}
    \cup {<<m, ExportFile("A")[1]>> : m \in MalformedConversations}
    \cup {<<ExportFile("A")[1], m>> : m \in MalformedConversations}

\* the parsed JSON of an upload that is an array of conversations
ArrayUploads == {[isArray |-> TRUE, value |-> f] : f \in ParseFiles}

\* the parsed JSON of an upload that is one conversation object
ObjectUploads ==
  {[isArray |-> FALSE, value |-> c] : c \in MalformedConversations \cup {ExportFile("A")[1]}}

\* Array.isArray(data) ? data : [data]
conversationsData(upload) == IF upload.isArray THEN upload.value ELSE <<upload.value>>

ParseInit ==
  /\ data \in {conversationsData(upload) : upload \in ArrayUploads}
              \cup {conversationsData(upload) : upload \in ObjectUploads}
  /\ pIndex = 1
  /\ parsePc = "extract"
  /\ walk = WalkStart(data[1])
  /\ walkSteps = 0
  /\ result = <<>>

\* one iteration of the while loop of extractMessages
ExtractStep ==
  /\ parsePc = "extract"
  /\ walk.running
  /\ walkSteps < MaxWalkSteps
  /\ ~Throws(data[pIndex], walk)
  /\ walk' = WalkBody(data[pIndex], walk)
  /\ walkSteps' = walkSteps + 1
  /\ UNCHANGED <<data, pIndex, parsePc, result>>
  /\ UNCHANGED nonParseVars

\* extractMessages returns; the conversation gets its messages and counts
ExtractReturn ==
  /\ parsePc = "extract"
  /\ ~walk.running
  /\ result' = Append(result, processConversation(data[pIndex], mergeConsecutiveMessages(walk.msgs)))
  /\ IF pIndex < Len(data)
     THEN /\ pIndex' = pIndex + 1
          /\ walk' = WalkStart(data[pIndex + 1])
          /\ parsePc' = "extract"
     ELSE /\ pIndex' = pIndex
          /\ walk' = IdleWalk
          /\ parsePc' = "done"
  /\ walkSteps' = 0
  /\ UNCHANGED <<data>>
  /\ UNCHANGED nonParseVars

\* extractMessages throws in its first iteration; the catch block gives the
\* conversation no messages
ExtractThrow ==
  /\ parsePc = "extract"
  /\ Throws(data[pIndex], walk)
  /\ result' = Append(result, caughtConversation(data[pIndex]))
  /\ IF pIndex < Len(data)
     THEN /\ pIndex' = pIndex + 1
          /\ walk' = WalkStart(data[pIndex + 1])
          /\ parsePc' = "extract"
     ELSE /\ pIndex' = pIndex
          /\ walk' = IdleWalk
          /\ parsePc' = "done"
  /\ walkSteps' = 0
  /\ UNCHANGED <<data>>
  /\ UNCHANGED nonParseVars

ParseIdle ==
  /\ data = <<>>
  /\ pIndex = 0
  /\ parsePc = "idle"
  /\ walk = IdleWalk
  /\ walkSteps = 0
  /\ result = <<>>

(***************************************************************************)
(* The rendering core: MarkupCache, AsyncConverter, BatchRenderer,         *)
(* VirtualWindow and ViewOrchestrator.  Message texts are numbers; a       *)
(* conversation is stored with its ordered messages.                       *)
(***************************************************************************)
\* the virtual window is used above this number of messages
VirtualThreshold == 80

\* messages materialized per idle slice
SliceSize == 20

\* items kept before and after the visible range
Overscan == 2

\* height of a message that has not been measured
EstimatedHeight == 3

ViewportHeight == 10

\* the worker hands back the result of one of its first MaxOverlap requests
MaxOverlap == 2

\* scroll offsets tried: ScrollSamples + 1 offsets spread over the range
ScrollSamples == 6

NoId == ""

SmallConv == "s2"

BigConvs == {"b79", "b80", "b81"}

ViewConvIds == {SmallConv} \cup BigConvs

ViewCount(c) ==
  CASE c = "s2" -> 2
    [] c = "b79" -> 79
    [] c = "b80" -> 80
    [] c = "b81" -> 81
    [] OTHER -> 0

\* message ids are unique over the conversations of a store
ViewBase(c) == IF c = SmallConv THEN 0 ELSE 100

ViewMessages(c) ==
  [i \in 1..ViewCount(c) |->
     [id |-> ViewBase(c) + i,
      role |-> IF i % 2 = 1 THEN "user" ELSE "assistant",
      text |-> ViewBase(c) + i]]

\* texts on which the conversion throws
MalformedTexts == {2, 103, 179}

\* the conversion: response {markup, success}; a failure still yields a
\* terminal fallback markup
Convert(text) ==
  [markup |-> [fmt |-> IF text \in MalformedTexts THEN "failed" ELSE "marked", text |-> text],
   success |-> text \notin MalformedTexts]

\* the transient placeholder of a message whose conversion is awaited
Placeholder == [fmt |-> "pending", text |-> 0]

EmptyCache == [x \in {} |-> 0]

\* MarkupCache.set
CacheSet(cache, key, markup) ==
  [x \in DOMAIN cache \cup {key} |-> IF x = key THEN markup ELSE cache[x]]

\* MarkupCache.has
CacheHas(cache, key) == key \in DOMAIN cache

\* pendingIds and queue: the ids in flight and the worker's requests;
\* dispatched: the requests posted so far, per id; noops: the calls of
\* request since the last slice began that posted nothing
NoConverter ==
  [pendingIds |-> {}, queue |-> <<>>, dispatched |-> EmptyBag, noops |-> 0]

\* AsyncConverter.request that posts to the worker whenever it is called
request_NoDedup(conv, cache, id, text) ==
  [conv EXCEPT !.pendingIds = @ \cup {id},
               !.queue = Append(@, [id |-> id, text |-> text]),
               !.dispatched = @ (+) SetToBag({id})]

\* AsyncConverter.request(id, text): a no-op for an id that is pending or
\* cached, else the id joins the pending-set and {id, text} is posted
request(conv, cache, id, text) ==
  IF id \in conv.pendingIds \/ CacheHas(cache, id)
  THEN [conv EXCEPT !.noops = @ + 1]
  ELSE [conv EXCEPT !.pendingIds = @ \cup {id},
                    !.queue = Append(@, [id |-> id, text |-> text]),
                    !.dispatched = @ (+) SetToBag({id})]

\* the display node of a message: cached markup, else a placeholder
BuildNode(cache, m) ==
  [id |-> m.id, role |-> m.role,
   content |-> IF CacheHas(cache, m.id) THEN cache[m.id] ELSE Placeholder]

\* the requests fired for the messages lo..hi that are not cached
RECURSIVE FireRequests(_, _, _, _, _)
FireRequests(conv, cache, msgs, lo, hi) ==
  IF lo > hi THEN conv
  ELSE FireRequests(IF CacheHas(cache, msgs[lo].id) THEN conv
                    ELSE request(conv, cache, msgs[lo].id, msgs[lo].text),
                    cache, msgs, lo + 1, hi)

\* the assembled markup of a conversation: the cache entry of a message,
\* else its synchronous conversion
AssembleMarkup(cache, msgs) ==
  [i \in 1..Len(msgs) |->
     [id |-> msgs[i].id, role |-> msgs[i].role,
      content |-> IF CacheHas(cache, msgs[i].id) THEN cache[msgs[i].id]
                  ELSE Convert(msgs[i].text).markup]]

\* reconciliation: the placeholders of message id are patched in place
PatchDisplay(nodes, id, markup) ==
  [j \in 1..Len(nodes) |->
     IF nodes[j].id = id /\ nodes[j].content = Placeholder
     THEN [nodes[j] EXCEPT !.content = markup] ELSE nodes[j]]

(***************************************************************************)
(* VirtualWindow                                                           *)
(***************************************************************************)
MeasuredHeight(id) == 1 + (id % 5)

NoHeights == [x \in {} |-> 0]

HeightOf(heights, id) == IF id \in DOMAIN heights THEN heights[id] ELSE EstimatedHeight

\* cumulative height of the first k messages
PrefixHeights(heights, msgs) ==
  LET P[k \in 0..Len(msgs)] ==
        IF k = 0 THEN 0 ELSE P[k - 1] + HeightOf(heights, msgs[k].id)
  IN P

MinOf(S) == CHOOSE x \in S : \A y \in S : x <= y

\* window start with the overscan added forward
windowStart_Forward(first, n) == Min2(first + 1, n)

\* backward overscan from the first visible index
windowStart(first, n) == Max2(first - Overscan, 0)

\* the threshold test passing from one message below the threshold
exceedsThreshold_OneBelow(count) == count >= VirtualThreshold - 1

exceedsThreshold(count) == count > VirtualThreshold

\* window computation for scroll offset s: [startIndex, endIndex) and the
\* two spacers
computeWindow(heights, msgs, s) ==
  LET n == Len(msgs)
      P == PrefixHeights(heights, msgs)
      visible == {i \in 0..(n - 1) : P[i + 1] > s}
      first == IF visible = {} THEN n ELSE MinOf(visible)
      start == windowStart(first, n)
      covered == {j \in first..n : P[j] >= s + ViewportHeight}
      end == Min2((IF covered = {} THEN n ELSE MinOf(covered)) + Overscan, n)
  IN [heights |-> heights, scrollOffset |-> s,
      startIndex |-> start, endIndex |-> end,
      topSpacer |-> P[start], bottomSpacer |-> P[n] - P[end]]

NoWindow ==
  [heights |-> NoHeights, scrollOffset |-> 0, startIndex |-> 0, endIndex |-> 0,
   topSpacer |-> 0, bottomSpacer |-> 0]

TotalHeight(heights, msgs) == PrefixHeights(heights, msgs)[Len(msgs)]

MaxScrollTop(heights, msgs) == Max2(TotalHeight(heights, msgs) - ViewportHeight, 0)

\* the k-th of the scroll offsets tried
ScrollOffset(heights, msgs, k) == (k * MaxScrollTop(heights, msgs)) \div ScrollSamples

\* the fragments of the window
WindowItems(full, w) == SubSeq(full, w.startIndex + 1, w.endIndex)

(***************************************************************************)
(* ViewOrchestrator, BatchRenderer and the worker                          *)
(***************************************************************************)
ViewIdle ==
  /\ viewStore = {}
  /\ viewLookup = NoId
  /\ viewState = "Idle"
  /\ viewSelected = NoId
  /\ messageCache = EmptyCache
  /\ convCache = EmptyCache
  /\ converter = NoConverter
  /\ batchPos = 0
  /\ display = <<>>
  /\ window = NoWindow

\* messages of a large conversation whose conversion is still in flight
\* at the start
ColdMessages == 3

\* the state after a large conversation b was batched and deselected with
\* its last ColdMessages conversions in flight and its assembled markup
\* not built: the other messages are cached
WarmCache(b) ==
  LET msgs == ViewMessages(b)
  IN [m \in {msgs[i].id : i \in 1..(Len(msgs) - ColdMessages)} |-> Convert(m).markup]

WarmConverter(b) ==
  LET msgs == ViewMessages(b)
      n == Len(msgs)
  IN [pendingIds |-> {msgs[i].id : i \in (n - ColdMessages + 1)..n},
      queue |-> [j \in 1..ColdMessages |->
                   [id |-> msgs[n - ColdMessages + j].id, text |-> msgs[n - ColdMessages + j].text]],
      dispatched |-> SetToBag({msgs[i].id : i \in 1..n}),
      noops |-> 0]

\* the store holds the small conversation and one large one
ViewInit ==
  /\ \E b \in BigConvs :
       /\ viewStore = {SmallConv, b}
       /\ messageCache = WarmCache(b)
       /\ converter = WarmConverter(b)
  /\ viewLookup = NoId
  /\ viewState = "Idle"
  /\ viewSelected = NoId
  /\ convCache = EmptyCache
  /\ batchPos = 0
  /\ display = <<>>
  /\ window = NoWindow

\* select with every conversation going to Batching
selectTarget_AlwaysBatch(cache, id) == "Batching"

\* the state a found conversation is shown in
selectTarget(cache, id) == IF CacheHas(cache, id) THEN "CacheServed" ELSE "Batching"

\* select(id) up to the await of the store read; selecting a different id
\* leaves the previous conversation (Idle)
ViewSelect(id) ==
  /\ viewLookup = NoId
  /\ viewLookup' = id
  /\ IF id = viewSelected
     THEN UNCHANGED <<viewState, viewSelected, batchPos, display, window>>
     ELSE /\ viewState' = "Idle"
          /\ viewSelected' = NoId
          /\ batchPos' = 0
          /\ display' = <<>>
          /\ window' = NoWindow
  /\ UNCHANGED <<viewStore, messageCache, convCache, converter>>
  /\ UNCHANGED nonViewVars

\* the store read settled: found, absent, or failed
ViewSelectResolved(outcome) ==
  /\ viewLookup # NoId
  /\ outcome = "found" => viewLookup \in viewStore
  /\ outcome = "absent" => viewLookup \notin viewStore
  /\ viewLookup' = NoId
  /\ IF outcome = "found"
     THEN /\ viewSelected' = viewLookup
          /\ viewState' = selectTarget(convCache, viewLookup)
          /\ display' = IF CacheHas(convCache, viewLookup) THEN convCache[viewLookup] ELSE <<>>
     ELSE /\ viewSelected' = NoId
          /\ viewState' = "Idle"
          /\ display' = <<>>
  /\ batchPos' = 0
  /\ window' = NoWindow
  /\ UNCHANGED <<viewStore, messageCache, convCache, converter>>
  /\ UNCHANGED nonViewVars

\* deselect
Deselect ==
  /\ viewSelected # NoId
  /\ viewSelected' = NoId
  /\ viewState' = "Idle"
  /\ batchPos' = 0
  /\ display' = <<>>
  /\ window' = NoWindow
  /\ UNCHANGED <<viewStore, viewLookup, messageCache, convCache, converter>>
  /\ UNCHANGED nonViewVars

\* one idle slice: the next SliceSize messages are appended, each from the
\* cache or as a placeholder with a request to the converter
BatchSlice ==
  /\ viewState = "Batching"
  /\ batchPos < ViewCount(viewSelected)
  /\ LET msgs == ViewMessages(viewSelected)
         hi == Min2(batchPos + SliceSize, Len(msgs))
     IN /\ display' = display \o [j \in 1..(hi - batchPos) |-> BuildNode(messageCache, msgs[batchPos + j])]
        /\ converter' = FireRequests([converter EXCEPT !.noops = 0], messageCache, msgs,
                                      batchPos + 1, hi)
        /\ batchPos' = hi
  /\ UNCHANGED <<viewStore, viewLookup, viewState, viewSelected, messageCache, convCache, window>>
  /\ UNCHANGED nonViewVars

\* the deferred build of the conversation's assembled markup
BuildMarkup ==
  /\ viewState = "Batching"
  /\ ~CacheHas(convCache, viewSelected)
  /\ convCache' = CacheSet(convCache, viewSelected,
                           AssembleMarkup(messageCache, ViewMessages(viewSelected)))
  /\ UNCHANGED <<viewStore, viewLookup, viewState, viewSelected, messageCache, converter,
                 batchPos, display, window>>
  /\ UNCHANGED nonViewVars

\* all slices are appended: the display is swapped for the assembled
\* markup, and handed to the virtual window above the threshold
BatchComplete ==
  /\ viewState = "Batching"
  /\ batchPos = ViewCount(viewSelected)
  /\ CacheHas(convCache, viewSelected)
  /\ IF exceedsThreshold(ViewCount(viewSelected))
     THEN /\ viewState' = "Windowed"
          /\ window' = computeWindow(NoHeights, ViewMessages(viewSelected), 0)
          /\ display' = WindowItems(convCache[viewSelected], window')
     ELSE /\ viewState' = "CacheServed"
          /\ window' = NoWindow
          /\ display' = convCache[viewSelected]
  /\ UNCHANGED <<viewStore, viewLookup, viewSelected, messageCache, convCache, converter, batchPos>>
  /\ UNCHANGED nonViewVars

\* the worker's response {id, markup, success} for its k-th request: the
\* markup is cached, the pending entry cleared, placeholders patched
WorkerResult(k) ==
  /\ k \in 1..Min2(MaxOverlap, Len(converter.queue))
  /\ LET req == converter.queue[k]
         res == Convert(req.text)
     IN /\ messageCache' = CacheSet(messageCache, req.id, res.markup)
        /\ converter' = [converter EXCEPT !.pendingIds = @ \ {req.id},
                                          !.queue = Without(@, k)]
        /\ display' = PatchDisplay(display, req.id, res.markup)
  /\ UNCHANGED <<viewStore, viewLookup, viewState, viewSelected, convCache, batchPos, window>>
  /\ UNCHANGED nonViewVars

\* a scroll event, handled once per frame: the window is recomputed for
\* the offset
Scroll(k) ==
  /\ viewState = "Windowed"
  /\ window' = computeWindow(window.heights, ViewMessages(viewSelected),
                             ScrollOffset(window.heights, ViewMessages(viewSelected), k))
  /\ window' # window
  /\ display' = WindowItems(convCache[viewSelected], window')
  /\ UNCHANGED <<viewStore, viewLookup, viewState, viewSelected, messageCache, convCache,
                 converter, batchPos>>
  /\ UNCHANGED nonViewVars

\* the warm-up pass: every item is measured once, the offset is kept
\* inside the new scroll range and the window recomputed
WarmUp ==
  /\ viewState = "Windowed"
  /\ window.heights = NoHeights
  /\ LET msgs == ViewMessages(viewSelected)
         measured == [m \in {msgs[i].id : i \in 1..Len(msgs)} |-> MeasuredHeight(m)]
     IN window' = computeWindow(measured, msgs,
                                Min2(window.scrollOffset, MaxScrollTop(measured, msgs)))
  /\ display' = WindowItems(convCache[viewSelected], window')
  /\ UNCHANGED <<viewStore, viewLookup, viewState, viewSelected, messageCache, convCache,
                 converter, batchPos>>
  /\ UNCHANGED nonViewVars

(***************************************************************************)
(* Specifications                                                          *)
(***************************************************************************)
\* the application, started on an empty database
Init == AppInit /\ ParseIdle /\ ViewIdle /\ ReportIdle

\* upload, selection, display, search and reset
Next ==
  \/ \E name \in FileNames : HandleFile(name)
  \/ \E i \in 1..Len(pending), parses \in BOOLEAN : FileLoaded(i, parses)
  \/ \E i \in 1..Len(pending), ok \in BOOLEAN : SaveResolved(i, ok)
  \/ \E i \in 1..Len(pending), ok \in BOOLEAN : LoadResolved(i, ok)
  \/ \E id \in ConvIds : SelectConversation(id)
  \/ \E i \in 1..Len(pending), ok \in BOOLEAN, throwing \in SUBSET (1..MaxNodes) :
       SelectResolved(i, ok, throwing)
  \/ \E term \in TitleTerms, sortBy \in SortKeys : FilterConversations(term, sortBy)

Spec == Init /\ [][Next]_vars

\* an upload is on its way from the file reader to the dashboard
Uploading == \E j \in 1..Len(pending) : pending[j].k \in {"fileLoaded", "saved", "loaded"}

\* upload, favorites and the reset with '<': one file is uploaded at a time
\* and every IndexedDB request succeeds (a file may still fail to parse)
ResetNext ==
  \/ \E name \in FileNames : ~Uploading /\ HandleFile(name)
  \/ \E i \in 1..Len(pending), parses \in BOOLEAN : FileLoaded(i, parses)
  \/ \E i \in 1..Len(pending) : SaveResolved(i, TRUE)
  \/ \E i \in 1..Len(pending) : LoadResolved(i, TRUE)
  \/ \E id \in ConvIds : ToggleFavorite(id)
  \/ \E i \in 1..Len(pending) : FavAddResolved(i, TRUE)
  \/ \E i \in 1..Len(pending) : FavRemoveResolved(i, TRUE)
  \/ BackToUpload
  \/ \E i \in 1..Len(pending) : ClearResolved(i, TRUE)
  \/ \E i \in 1..Len(pending) : FavInitResolved(i, TRUE)
  \/ \E i \in 1..Len(pending) : FavInitGetResolved(i, TRUE)

SpecReset == Init /\ [][ResetNext]_vars

\* the two search boxes after startup, or after an upload when startup found
\* no stored conversation
SearchNext ==
  \/ \E ok \in BOOLEAN : StartOpened(ok)
  \/ \E ok \in BOOLEAN : StartFavorites(ok)
  \/ \E ok \in BOOLEAN : StartFavoriteGet(ok)
  \/ \E ok \in BOOLEAN : StartHighlights(ok)
  \/ \E ok \in BOOLEAN : StartConversations(ok)
  \/ \E ok \in BOOLEAN : StartLoaded(ok)
  \/ \E name \in FileNames : initPc = "empty" /\ HandleFile(name)
  \/ \E i \in 1..Len(pending), parses \in BOOLEAN : FileLoaded(i, parses)
  \/ \E i \in 1..Len(pending) : SaveResolved(i, TRUE)
  \/ \E i \in 1..Len(pending) : LoadResolved(i, TRUE)
  \/ \E term \in TitleTerms, sortBy \in SortKeys : FilterConversations(term, sortBy)
  \/ \E term \in ContentTerms, sortBy \in SortKeys : FilterConversationsByContent(term, sortBy)

SearchStart == StartupInit /\ ParseIdle /\ ViewIdle /\ ReportIdle

SpecSearch == SearchStart /\ [][SearchNext]_vars

\* favorites and highlights on an uploaded file
FavoritesNext ==
  \/ \E name \in FileNames : HandleFile(name)
  \/ \E i \in 1..Len(pending), parses \in BOOLEAN : FileLoaded(i, parses)
  \/ \E i \in 1..Len(pending), ok \in BOOLEAN : SaveResolved(i, ok)
  \/ \E i \in 1..Len(pending), ok \in BOOLEAN : LoadResolved(i, ok)
  \/ \E id \in ConvIds : SelectConversation(id)
  \/ \E i \in 1..Len(pending), ok \in BOOLEAN : SelectResolved(i, ok, {})
  \/ \E id \in ConvIds : ToggleFavorite(id)
  \/ \E i \in 1..Len(pending), ok \in BOOLEAN : FavAddResolved(i, ok)
  \/ \E i \in 1..Len(pending), ok \in BOOLEAN : FavRemoveResolved(i, ok)
  \/ \E m \in NodeIds : HighlightMessage(m)
  \/ \E i \in 1..Len(pending), ok \in BOOLEAN : HlAddResolved(i, ok)
  \/ BackToUpload
  \/ \E i \in 1..Len(pending), ok \in BOOLEAN : ClearResolved(i, ok)
  \/ \E i \in 1..Len(pending), ok \in BOOLEAN : FavInitResolved(i, ok)
  \/ \E i \in 1..Len(pending), ok \in BOOLEAN : FavInitGetResolved(i, ok)

SpecFavorites == Init /\ [][FavoritesNext]_vars

\* the favorite button on an uploaded file
ToggleNext ==
  \/ \E name \in FileNames : HandleFile(name)
  \/ \E i \in 1..Len(pending) : FileLoaded(i, TRUE)
  \/ \E i \in 1..Len(pending) : SaveResolved(i, TRUE)
  \/ \E i \in 1..Len(pending) : LoadResolved(i, TRUE)
  \/ \E id \in ConvIds : ToggleFavorite(id)
  \/ \E i \in 1..Len(pending), ok \in BOOLEAN : FavAddResolved(i, ok)
  \/ \E i \in 1..Len(pending), ok \in BOOLEAN : FavRemoveResolved(i, ok)

SpecToggle == Init /\ [][ToggleNext]_vars

\* upload, favorites, reset and the export of the favorites: one file is
\* uploaded at a time and every request succeeds, except the reads of the
\* export, which may fail
ExportNext ==
  \/ \E name \in FileNames : ~Uploading /\ HandleFile(name)
  \/ \E i \in 1..Len(pending) : FileLoaded(i, TRUE)
  \/ \E i \in 1..Len(pending) : SaveResolved(i, TRUE)
  \/ \E i \in 1..Len(pending) : LoadResolved(i, TRUE)
  \/ \E id \in ConvIds : ToggleFavorite(id)
  \/ \E i \in 1..Len(pending) : FavAddResolved(i, TRUE)
  \/ \E i \in 1..Len(pending) : FavRemoveResolved(i, TRUE)
  \/ BackToUpload
  \/ \E i \in 1..Len(pending) : ClearResolved(i, TRUE)
  \/ \E i \in 1..Len(pending) : FavInitResolved(i, TRUE)
  \/ \E i \in 1..Len(pending) : FavInitGetResolved(i, TRUE)
  \/ ExportFavorites
  \/ \E i \in 1..Len(pending), ok \in BOOLEAN : ExportResolved(i, ok)

SpecExport == Init /\ [][ExportNext]_vars

\* the trend chart of the dashboard
TrendStart == TrendInit /\ ExportIdle /\ AppInit /\ ParseIdle /\ ViewIdle

TrendNext == RenderTrend \/ RenderTrendStored \/ RenderTrendLast20Days

SpecTrend == TrendStart /\ [][TrendNext]_vars

\* the operations of FavoritesManager, each run to completion before the
\* next one starts, on an uploaded file; every request succeeds
Quiet == pending = <<>>

ManagerNext ==
  \/ \E name \in FileNames : Quiet /\ HandleFile(name)
  \/ \E i \in 1..Len(pending) : FileLoaded(i, TRUE)
  \/ \E i \in 1..Len(pending) : SaveResolved(i, TRUE)
  \/ \E i \in 1..Len(pending) : LoadResolved(i, TRUE)
  \/ \E id \in ConvIds : Quiet /\ ToggleFavorite(id)
  \/ \E id \in ConvIds : Quiet /\ AddFavorite(id)
  \/ \E id \in ConvIds : Quiet /\ RemoveFavorite(id)
  \/ Quiet /\ FavoritesInit
  \/ \E i \in 1..Len(pending) : FavAddResolved(i, TRUE)
  \/ \E i \in 1..Len(pending) : FavRemoveResolved(i, TRUE)
  \/ \E i \in 1..Len(pending) : FavInitResolved(i, TRUE)
  \/ \E i \in 1..Len(pending) : FavInitGetResolved(i, TRUE)

SpecManager == Init /\ [][ManagerNext]_vars

\* the favorite button clicked twice in a row on an uploaded file: the
\* second toggleFavorite(id) starts while the first awaits the store
OverlapNext ==
  \/ \E name \in FileNames : Quiet /\ HandleFile(name)
  \/ \E i \in 1..Len(pending) : FileLoaded(i, TRUE)
  \/ \E i \in 1..Len(pending) : SaveResolved(i, TRUE)
  \/ \E i \in 1..Len(pending) : LoadResolved(i, TRUE)
  \/ \E id \in ConvIds : ToggleFavorite(id)
  \/ \E id \in ConvIds : ToggleFavoriteAgain(id)
  \/ \E i \in 1..Len(pending) : FavAddResolved(i, TRUE)
  \/ \E i \in 1..Len(pending) : FavRemoveResolved(i, TRUE)

SpecOverlap == Init /\ [][OverlapNext]_vars

\* favorites are toggled and given notes, one call at a time; the requests
\* of updateNote may fail
NotesNext ==
  \/ \E name \in FileNames : Quiet /\ HandleFile(name)
  \/ \E i \in 1..Len(pending) : FileLoaded(i, TRUE)
  \/ \E i \in 1..Len(pending) : SaveResolved(i, TRUE)
  \/ \E i \in 1..Len(pending) : LoadResolved(i, TRUE)
  \/ \E id \in ConvIds : Quiet /\ ToggleFavorite(id)
  \/ \E i \in 1..Len(pending) : FavAddResolved(i, TRUE)
  \/ \E i \in 1..Len(pending) : FavRemoveResolved(i, TRUE)
  \/ \E id \in ConvIds, note \in Notes : Quiet /\ UpdateNote(id, note)
  \/ \E i \in 1..Len(pending), ok \in BOOLEAN : NoteRemoveResolved(i, ok)
  \/ \E i \in 1..Len(pending), ok \in BOOLEAN : NoteAddResolved(i, ok)

SpecNotes == Init /\ [][NotesNext]_vars

\* uploads of .json files and of a file of another kind; reading the
\* file, parsing it, saving and reading back may each fail; on the
\* dashboard conversations are selected
UploadNext ==
  \/ \E name \in UploadNames : HandleFile(name)
  \/ \E i \in 1..Len(pending), parses \in BOOLEAN : FileLoaded(i, parses)
  \/ \E i \in 1..Len(pending), ok \in BOOLEAN : SaveResolved(i, ok)
  \/ \E i \in 1..Len(pending), ok \in BOOLEAN : LoadResolved(i, ok)
  \/ \E id \in ConvIds : SelectConversation(id)
  \/ \E i \in 1..Len(pending), ok \in BOOLEAN : SelectResolved(i, ok, {})

SpecUpload == Init /\ [][UploadNext]_vars

\* clicks on list items, also while an earlier lookup is awaited; the
\* lookups succeed and marked.parse does not throw
SelectNext ==
  \/ \E name \in FileNames : Quiet /\ HandleFile(name)
  \/ \E i \in 1..Len(pending) : FileLoaded(i, TRUE)
  \/ \E i \in 1..Len(pending) : SaveResolved(i, TRUE)
  \/ \E i \in 1..Len(pending) : LoadResolved(i, TRUE)
  \/ \E id \in ConvIds : SelectConversation(id)
  \/ \E id \in ConvIds : SelectConversationAgain(id)
  \/ \E i \in 1..Len(pending) : SelectResolved(i, TRUE, {})

SpecSelect == Init /\ [][SelectNext]_vars

\* initApp on the stores of an earlier visit
StartupStart == StartupInit /\ ParseIdle /\ ViewIdle /\ ReportIdle

StartupNext ==
  \/ \E ok \in BOOLEAN : StartOpened(ok)
  \/ \E ok \in BOOLEAN : StartFavorites(ok)
  \/ \E ok \in BOOLEAN : StartFavoriteGet(ok)
  \/ \E ok \in BOOLEAN : StartHighlights(ok)
  \/ \E ok \in BOOLEAN : StartConversations(ok)
  \/ \E ok \in BOOLEAN : StartLoaded(ok)

SpecStartup == StartupStart /\ [][StartupNext]_vars

\* initApp has run highlightsManager.init and has ended
Started == initPc \in {"shown", "empty"}

\* initApp on the stores of an earlier visit, with its
\* highlightsManager.init, then addHighlight and removeHighlight called
\* one after the other, each call finished before the next is made
HighlightsNext ==
  \/ StartOpened(TRUE)
  \/ StartFavorites(TRUE)
  \/ StartFavoriteGet(TRUE)
  \/ \E ok \in BOOLEAN : StartHighlights(ok)
  \/ StartConversations(TRUE)
  \/ StartLoaded(TRUE)
  \/ \E c \in ConvIds, m \in 1..MaxNodes : Quiet /\ Started /\ AddHighlight(c, m)
  \/ \E h \in 1..MaxHighlights, c \in ConvIds : Quiet /\ Started /\ RemoveHighlight(h, c)
  \/ \E i \in 1..Len(pending), ok \in BOOLEAN : HlAddResolved(i, ok)
  \/ \E i \in 1..Len(pending), ok \in BOOLEAN : HlRemoveResolved(i, ok)

SpecHighlights == StartupStart /\ [][HighlightsNext]_vars

\* the parser on one export file
ParseStart == ParseInit /\ AppInit /\ ViewIdle /\ ReportIdle

ParseNext == ExtractStep \/ ExtractReturn \/ ExtractThrow

SpecParse == ParseStart /\ [][ParseNext]_vars

\* the rendering core on a store of two conversations
ViewStart == ViewInit /\ AppInit /\ ParseIdle /\ ReportIdle

ViewNext ==
  \/ \E id \in ViewConvIds : ViewSelect(id)
  \/ \E outcome \in {"found", "absent", "error"} : ViewSelectResolved(outcome)
  \/ Deselect
  \/ BatchSlice
  \/ BuildMarkup
  \/ BatchComplete
  \/ \E k \in 1..MaxOverlap : WorkerResult(k)
  \/ \E k \in 0..ScrollSamples : Scroll(k)
  \/ WarmUp

SpecView == ViewStart /\ [][ViewNext]_vars

(***************************************************************************)
(* C9, C10: properties of the parser                                       *)
(***************************************************************************)
ParentOf(conv, n) == IF n \in DOMAIN conv.mapping THEN conv.mapping[n].parent ELSE Null

\* the nodes met when following parent pointers from n, n included
RECURSIVE ChainFrom(_, _, _)
ChainFrom(conv, n, fuel) ==
  IF n = Null \/ n \notin DOMAIN conv.mapping \/ fuel = 0 THEN {}
  ELSE {n} \cup ChainFrom(conv, conv.mapping[n].parent, fuel - 1)

OnChain(conv) == ChainFrom(conv, conv.current_node, MaxNodes)

IsAncestor(conv, a, b) == a \in ChainFrom(conv, ParentOf(conv, b), MaxNodes)

\* the lines of a message list, in order (every line is the id of the node
\* it was taken from)
RECURSIVE LinesOf(_)
LinesOf(msgs) == IF msgs = <<>> THEN <<>> ELSE Head(msgs).content \o LinesOf(Tail(msgs))

\* C9: extractMessages returns text only from nodes on the parent chain of
\* current_node (never from another branch), in root-to-leaf order.
C9_ChainOnlyRootToLeaf ==
  \A k \in 1..Len(result) :
    LET lines == LinesOf(result[k].messages)
    IN /\ \A j \in 1..Len(lines) : lines[j] \in OnChain(data[k])
       /\ \A j \in 1..(Len(lines) - 1) : IsAncestor(data[k], lines[j], lines[j + 1])
       /\ \A j \in 1..Len(result[k].messages) : result[k].messages[j].id \in OnChain(data[k])

\* a parsed conversation with two chain nodes that gave text and a node of
\* another branch that holds text but gave none
C9_Witness ==
  /\ parsePc = "done"
  /\ Len(LinesOf(result[1].messages)) >= 2
  /\ \E n \in NodeIds :
       /\ n \notin OnChain(data[1])
       /\ isValidMessage(data[1].mapping[n])
       /\ data[1].mapping[n].parent \in OnChain(data[1])

\* C10: every processed conversation has as many user messages as
\* assistant messages.
C10_EqualCounts ==
  \A k \in 1..Len(result) : result[k].userMessageCount = result[k].assistantMessageCount

(***************************************************************************)
(* C1 - C4: selection and display                                          *)
(***************************************************************************)
\* a step in which the lookup of selectConversation fails (error event) or
\* returns nothing
SelectMiss ==
  \E i \in 1..Len(pending), ok \in BOOLEAN :
    /\ SelectResolved(i, ok, {})
    /\ ~ok \/ Lookup(pending[i].key) = NoConv

C25_HighlightsMatchStore ==
  (Started /\ pending = <<>>) =>
    /\ highlights = dbHighlights
    /\ getCount = Cardinality(getAllHighlightsInMemory)

\* a selectConversation call is waiting for its lookup
Selecting == \E j \in 1..Len(pending) : pending[j].k = "select"

\* C24: once no selectConversation call is waiting, the conversation in
\* currentConversation is the one of the latest selectConversation call,
\* and at every moment the displayed fragments are those of the messages of
\* currentConversation.
C24_LastSelectedWins ==
  /\ (~Selecting /\ selectLog \in DOMAIN dbConversations) => currentConversation.id = selectLog
  /\ Len(container) = Len(currentConversation.messages)
  /\ \A j \in 1..Len(container) : container[j].id = currentConversation.messages[j].id

StoresChanged ==
  \/ dbConversations' # dbConversations
  \/ dbFavorites' # dbFavorites
  \/ dbHighlights' # dbHighlights

BrowseStep ==
  \/ \E id \in ConvIds : SelectConversation(id)
  \/ \E i \in 1..Len(pending), ok \in BOOLEAN, throwing \in SUBSET (1..MaxNodes) :
       SelectResolved(i, ok, throwing)
  \/ \E term \in TitleTerms, sortBy \in SortKeys : FilterConversations(term, sortBy)

WriteStep ==
  \E i \in 1..Len(pending), ok \in BOOLEAN :
    \/ SaveResolved(i, ok)
    \/ FavAddResolved(i, ok)
    \/ FavRemoveResolved(i, ok)
    \/ HlAddResolved(i, ok)
    \/ ClearResolved(i, ok)

C4_ConversionFailureIsLocal ==
  [][\A i \in 1..Len(pending), throwing \in SUBSET (1..MaxNodes) :
       (SelectResolved(i, TRUE, throwing) /\ Lookup(pending[i].key) # NoConv)
       => LET msgs == Lookup(pending[i].key).messages
          IN /\ currentConversation' = Lookup(pending[i].key)
             /\ Len(container') = Len(msgs)
             /\ \A j \in 1..Len(msgs) :
                  container'[j].content =
                    IF j \in throwing THEN escapeHtml(msgs[j].content)
                    ELSE MarkedParse(msgs[j].content)]_vars

\* a displayed conversation with one message in fallback markup and
\* another in converted markup
C4_Witness ==
  \E j, k \in 1..Len(container) :
    /\ container[j].content.fmt = "escaped"
    /\ container[k].content.fmt = "marked"

(***************************************************************************)
(* C5 - C8: the rendering core                                             *)
(***************************************************************************)
\* C5: a message id has at most one request posted to the worker and at
\* most one outstanding; an id is never pending and cached at once, and
\* its one cache entry is the conversion of its text.
C5_OneRequestPerId ==
  /\ \A id \in BagToSet(converter.dispatched) : CopiesIn(id, converter.dispatched) <= 1
  /\ \A i, j \in 1..Len(converter.queue) :
       converter.queue[i].id = converter.queue[j].id => i = j
  /\ converter.pendingIds = {converter.queue[i].id : i \in 1..Len(converter.queue)}
  /\ converter.pendingIds \cap DOMAIN messageCache = {}
  /\ \A id \in DOMAIN messageCache : messageCache[id] = Convert(id).markup

\* a request for a pending id was made again and posted nothing
C5_Witness ==
  /\ converter.noops > 0
  /\ converter.pendingIds # {}
  /\ viewState = "Batching"

\* C6: a found selection goes to CacheServed when the conversation-markup
\* cache has the id and to Batching otherwise; Batching ends, for the same
\* selection, only with all messages appended, in Windowed above the
\* threshold and in CacheServed otherwise; Windowed is entered only from
\* Batching.
C6_Transitions ==
  [][/\ (viewLookup # NoId /\ viewLookup' = NoId /\ viewSelected' # NoId)
          => /\ viewSelected' = viewLookup
             /\ viewState' = IF viewLookup \in DOMAIN convCache THEN "CacheServed"
                             ELSE "Batching"
     /\ (viewState = "Batching" /\ viewState' # "Batching"
           /\ viewSelected' = viewSelected /\ viewLookup' = viewLookup)
          => /\ batchPos = ViewCount(viewSelected)
             /\ viewState' = IF ViewCount(viewSelected) > VirtualThreshold THEN "Windowed"
                             ELSE "CacheServed"
     /\ (viewState' = "Windowed" /\ viewState # "Windowed")
          => viewState = "Batching" /\ viewSelected' = viewSelected]_vars

\* the conversation of exactly VirtualThreshold messages was batched to
\* the end and is served from the cache
C6_Witness ==
  /\ viewState = "CacheServed"
  /\ viewSelected = "b80"
  /\ batchPos = ViewCount("b80")

\* C7: the conversation of 79 messages is never shown in the virtual
\* window; the batch of the conversation of 81 messages ends in it.
C7_Threshold ==
  [][/\ viewSelected' = "b79" => viewState' # "Windowed"
     /\ (viewSelected = "b81" /\ viewState = "Batching" /\ viewState' # "Batching"
           /\ viewSelected' = viewSelected /\ viewLookup' = viewLookup)
          => viewState' = "Windowed"]_vars

C7_Witness ==
  /\ viewState = "Windowed"
  /\ viewSelected = "b81"
  /\ ViewCount(viewSelected) = 81

HeightsOf(heights, msgs) == [i \in 1..Len(msgs) |-> HeightOf(heights, msgs[i].id)]

\* C8: in the virtual window startIndex <= endIndex, the top spacer, the
\* heights of the displayed items and the bottom spacer add up to the
\* height of the whole conversation, and the top spacer is at most the
\* scroll offset.
C8_WindowSpacers ==
  viewState = "Windowed" =>
    LET msgs == ViewMessages(viewSelected)
        h == HeightsOf(window.heights, msgs)
    IN /\ window.startIndex <= window.endIndex
       /\ Len(display) = window.endIndex - window.startIndex
       /\ \A j \in 1..Len(display) : display[j].id = msgs[window.startIndex + j].id
       /\ window.topSpacer + SumSeq(SubSeq(h, window.startIndex + 1, window.endIndex))
            + window.bottomSpacer = SumSeq(h)
       /\ window.topSpacer <= window.scrollOffset

\* a window in the middle of the measured conversation
C8_Witness ==
  /\ viewState = "Windowed"
  /\ window.heights # NoHeights
  /\ window.scrollOffset > 0
  /\ window.startIndex > 0
  /\ window.endIndex < ViewCount(viewSelected)

(***************************************************************************)
(* C11, C20: the parser's messages                                         *)
(***************************************************************************)
\* the author role of the node a line was taken from
AuthorOfLine(conv, line) == conv.mapping[line].message.role

\* C11: every message of a processed conversation has role user or
\* assistant and non-empty content; none of its lines comes from a system
\* node, a hidden node or a blank part, and the lines of tool nodes are in
\* assistant messages.
C11_RolesAndContent ==
  \A k \in 1..Len(result) : \A j \in 1..Len(result[k].messages) :
    LET msg == result[k].messages[j]
    IN /\ msg.role \in {"user", "assistant"}
       /\ msg.content # <<>>
       /\ \A i \in 1..Len(msg.content) :
            /\ msg.content[i] \in NodeIds
            /\ AuthorOfLine(data[k], msg.content[i]) # "system"
            /\ ~data[k].mapping[msg.content[i]].message.hidden
            /\ AuthorOfLine(data[k], msg.content[i]) = "tool" => msg.role = "assistant"

\* a parsed chain with a tool node that gave an assistant message
C11_Witness ==
  /\ parsePc = "done"
  /\ \E j \in 1..Len(result[1].messages) : \E i \in 1..Len(result[1].messages[j].content) :
       AuthorOfLine(data[1], result[1].messages[j].content[i]) = "tool"
  /\ \E j \in 1..Len(result[1].messages) : result[1].messages[j].role = "user"

\* C20: every processed conversation, one whose extraction threw included,
\* has messageCount equal to the number of its messages and
\* userMessageCount + assistantMessageCount equal to messageCount.
C20_CountsFromMessages ==
  \A k \in 1..Len(result) :
    /\ result[k].messageCount = Len(result[k].messages)
    /\ result[k].userMessageCount + result[k].assistantMessageCount = result[k].messageCount

\* a parsed file whose first conversation threw for want of a mapping and
\* whose second one has a user and an assistant message
C20_Witness ==
  /\ parsePc = "done"
  /\ Len(result) = 2
  /\ "mapping" \notin DOMAIN data[1]
  /\ data[1].current_node # Null
  /\ result[1].messages = <<>>
  /\ result[2].userMessageCount >= 1
  /\ result[2].assistantMessageCount >= 1

(***************************************************************************)
(* C12 - C14: reset, upload after reset, startup                           *)
(***************************************************************************)
\* C12: when backToUpload has completed the conversations store and the
\* favorites store are empty and no favorite is left in memory.
C12_BackClearsStores ==
  [][BackToUpload => /\ DOMAIN dbConversations' = {}
                     /\ dbFavorites' = {}
                     /\ DOMAIN favorites' = {}]_vars

\* the dashboard of an upload is shown and nothing is pending
Settled == pending = <<>> /\ screen.dashboard

\* C13: once the dashboard of an upload is shown and every pending operation
\* has finished, the conversations store holds exactly the conversations of
\* the uploaded file, and every favorite of the store and every favorite in
\* memory was made since that upload.
C13_UploadReplaces ==
  Settled =>
    /\ DOMAIN dbConversations = Range(IdsOf(allConversations))
    /\ \A k \in 1..Len(allConversations) :
          dbConversations[allConversations[k].id] = allConversations[k]
    /\ \A f \in dbFavorites : f.id > favoritesBefore /\ f.timestamp >= uploads
    /\ \A c \in DOMAIN favorites : favorites[c].id > favoritesBefore

\* C14: when initApp ends with the dashboard shown, the conversations store
\* is not empty and the lists hold exactly its conversations; when it ends
\* because the store is empty, or because a step of the initialisation
\* failed, the upload section is shown and the dashboard is not.
C14_StartupShowsStored ==
  /\ initPc = "shown" =>
       /\ screen.dashboard
       /\ DOMAIN dbConversations # {}
       /\ Len(allConversations) = Cardinality(DOMAIN dbConversations)
       /\ \A k \in 1..Len(allConversations) :
            /\ allConversations[k].id \in DOMAIN dbConversations
            /\ allConversations[k] =
                 [dbConversations[allConversations[k].id] EXCEPT !.messages = <<>>]
       /\ Len(conversationList) = Len(allConversations)
       /\ Range(conversationList) = DOMAIN dbConversations
  /\ initPc = "empty" => DOMAIN dbConversations = {}
  /\ initPc \in {"empty", "failed"} =>
       /\ ~screen.dashboard
       /\ screen.uploadDisplay = "block"

\* the dashboard is shown at startup on the store two uploads left behind
C14_Witness ==
  /\ initPc = "shown"
  /\ DOMAIN dbConversations = {"c1", "c2", "c3"}
  /\ DOMAIN favorites = {"c1", "c2"}

\* the sort keys that only reorder the list
OrderingKeys == SortKeys \ {"favorites"}

\* C15: for a sort key that only reorders, filterConversations(term) leaves
\* in filteredConversations exactly the members of allConversations whose
\* title contains term without regard to case, and
\* filterConversationsByContent(term) exactly the stored conversations with a
\* message whose content contains term without regard to case, all of them
\* members of allConversations.
C15_FiltersExact ==
  [][/\ \A term \in TitleTerms, sortBy \in OrderingKeys :
          FilterConversations(term, sortBy) =>
            Range(filteredConversations') =
              {c \in Range(allConversations) :
                 Includes(toLowerCase(c.title), toLowerCase(term))}
     /\ \A term \in ContentTerms, sortBy \in OrderingKeys :
          FilterConversationsByContent(term, sortBy) =>
            /\ Range(IdsOf(filteredConversations')) =
                 {id \in DOMAIN dbConversations : ContentMatch(dbConversations[id], term)}
            /\ Range(filteredConversations') \subseteq Range(allConversations)]_vars

\* C16: the list rendered by filterConversations(term, sortBy) is ordered by
\* the chosen key, for every search term: newest create_time first for
\* "time", non-increasing messageCount for "messages", ascending title for
\* "title".
C16_RenderedInKeyOrder ==
  [][\A term \in TitleTerms :
       LET rendered == filteredConversations'
           Pairs == {p \in (1..Len(rendered)) \X (1..Len(rendered)) : p[1] < p[2]}
       IN /\ FilterConversations(term, "time") =>
               \A p \in Pairs : rendered[p[1]].create_time >= rendered[p[2]].create_time
          /\ FilterConversations(term, "messages") =>
               \A p \in Pairs : rendered[p[1]].messageCount >= rendered[p[2]].messageCount
          /\ FilterConversations(term, "title") =>
               \A p \in Pairs : localeCompare(rendered[p[1]].title, rendered[p[2]].title) <= 0]_vars

\* a toggleFavorite(id) call returns in this step
ToggleReturns(id) ==
  \E i \in 1..Len(pending) :
    /\ pending[i].key = id
    /\ \/ FavAddResolved(i, TRUE)
       \/ FavRemoveResolved(i, TRUE)

\* isFavorite(id) and chatDB.isFavorite(id) after the step
isFavoriteAfter(id) == id \in DOMAIN favorites'

isStoredFavoriteAfter(id) == \E f \in dbFavorites' : f.conversationId = id

\* C17: a toggleFavorite(id) that found id not favorited leaves it favorited
\* and returns true, one that found it favorited leaves it not favorited and
\* returns false; after two calls made one after the other the membership
\* of id in the map and in the store is what the first call found; and a
\* step changes the membership of an id, in the map or in the store, only
\* when a toggleFavorite of that id returns.
C17_ToggleFlips ==
  [][/\ (toggleLog'.returned = "true" => isFavoriteAfter(toggleLog'.id))
     /\ (toggleLog'.returned = "false" => ~isFavoriteAfter(toggleLog'.id))
     /\ (toggleLog'.calls = 1 /\ toggleLog'.returned # "none" =>
           (toggleLog'.returned = "true" <=> ~toggleLog'.inMemory))
     /\ (toggleLog'.calls = 2 /\ toggleLog'.returned # "none" =>
           /\ toggleLog'.returned = "true" <=> toggleLog'.inMemory
           /\ isFavoriteAfter(toggleLog'.id) <=> toggleLog'.inMemory
           /\ isStoredFavoriteAfter(toggleLog'.id) <=> toggleLog'.inStore)
     /\ \A id \in ConvIds :
          (\/ isFavoriteAfter(id) # isFavorite(id)
           \/ isStoredFavoriteAfter(id) # isStoredFavorite(id)) => ToggleReturns(id)]_vars

\* a favorite was added and removed again by two calls one after the other,
\* and another conversation is a favorite
C17_Witness ==
  /\ toggleLog.calls = 2
  /\ toggleLog.returned = "false"
  /\ ~isFavorite(toggleLog.id)
  /\ favorites # <<>>

(***************************************************************************)
(* C18, C19: trend chart, export of the favorites                          *)
(***************************************************************************)
\* the dates that have at least one message
DatesWithMessages ==
  {date \in 0..(MaxTrendConversations + 1) : CountOn(trendConversations, date) > 0}

\* the n latest dates of a set
MostRecent(dates, n) == {d \in dates : Cardinality({e \in dates : e > d}) < n}

\* C18: the trend chart has at most 20 bars, one for each of the 20 most
\* recent dates that have at least one message, in ascending date order,
\* each with the number of messages of its date; a date without messages
\* has no bar.
C18_TrendBars ==
  chart.rendered =>
    /\ Len(chart.bars) <= ChartBars
    /\ {chart.bars[i].date : i \in 1..Len(chart.bars)} = MostRecent(DatesWithMessages, ChartBars)
    /\ \A i \in 1..Len(chart.bars) :
         /\ chart.bars[i].count = CountOn(trendConversations, chart.bars[i].date)
         /\ \A j \in (i + 1)..Len(chart.bars) : chart.bars[i].date < chart.bars[j].date

\* the favorites of an export whose conversation is in the store, as the
\* sections of the file
ExistingSections(favs) ==
  LET existing == SelectSeq(favs, LAMBDA fav : fav.conversationId \in DOMAIN dbConversations)
  IN [j \in 1..Len(existing) |-> Section(dbConversations[existing[j].conversationId])]

\* C19: exportFavorites with no favorites produces no download; otherwise,
\* when its reads succeed, it downloads a file with exactly the favorited
\* conversations that are in the store, and a favorite whose conversation is
\* absent from the store is skipped without an error.
C19_ExportsExistingFavorites ==
  [][/\ (ExportFavorites /\ favorites = <<>> =>
           download'.outcome = "returned" /\ pending' = pending)
     /\ \A i \in 1..Len(pending) :
          ExportResolved(i, TRUE) =>
            /\ download'.outcome = "downloaded"
            /\ download'.file = ExistingSections(pending[i].favs)]_vars

(***************************************************************************)
(* C21, C26, C27: the walk, the merge and the per-conversation catch       *)
(***************************************************************************)
\* C21: extractMessages visits each node on the parent chain of
\* current_node at most once, so the loop makes at most one iteration per
\* chain node, and when it stops it is at a null id or at an id missing
\* from the mapping.
C21_OneShotWalk ==
  (parsePc = "extract" /\ "mapping" \in DOMAIN data[pIndex]) =>
    /\ walkSteps <= Cardinality(OnChain(data[pIndex])) + 1
    /\ ~walk.running => (walk.node = Null \/ walk.node \notin DOMAIN data[pIndex].mapping)

\* the positions at which a run of messages of one role starts
RunStarts(msgs) == {i \in 1..Len(msgs) : i = 1 \/ msgs[i - 1].role # msgs[i].role}

\* the last position of the run that starts at s
RunEnd(msgs, s) ==
  CHOOSE e \in s..Len(msgs) :
    /\ \A i \in s..e : msgs[i].role = msgs[s].role
    /\ e = Len(msgs) \/ msgs[e + 1].role # msgs[s].role

\* the start of the j-th run
NthRunStart(msgs, j) ==
  CHOOSE s \in RunStarts(msgs) : Cardinality({t \in RunStarts(msgs) : t <= s}) = j

\* the lines of the messages s..e one after the other
RECURSIVE RunLines(_, _, _)
RunLines(msgs, s, e) ==
  IF s > e THEN <<>> ELSE msgs[s].content \o RunLines(msgs, s + 1, e)

\* extractMessages returns in this step
Returning == parsePc = "extract" /\ ~walk.running /\ Len(result') = Len(result) + 1

\* the messages mergeConsecutiveMessages returned in this step
Merged == result'[Len(result')].messages

\* C26: mergeConsecutiveMessages returns one message per maximal run of
\* messages of one role, in order, each with the role of its run and the
\* contents of the run joined in order, so no two adjacent messages of the
\* output share a role; merging the output again changes nothing, and no
\* messages give no messages.
C26_MergesMaximalRuns ==
  [][Returning =>
       /\ \A j \in 1..(Len(Merged) - 1) : Merged[j].role # Merged[j + 1].role
       /\ Len(Merged) = Cardinality(RunStarts(walk.msgs))
       /\ \A j \in 1..Len(Merged) :
            LET s == NthRunStart(walk.msgs, j)
            IN /\ Merged[j].role = walk.msgs[s].role
               /\ Merged[j].content = RunLines(walk.msgs, s, RunEnd(walk.msgs, s))
       /\ mergeConsecutiveMessages(Merged) = Merged
       /\ walk.msgs = <<>> => Merged = <<>>]_vars

\* a conversation whose first two messages were merged into one and whose
\* third message has the other role
C26_Witness ==
  \E k \in 1..Len(result) :
    /\ Len(result[k].messages) = 2
    /\ Len(result[k].messages[1].content) = 2
    /\ result[k].messages[1].role # result[k].messages[2].role

\* extractMessages(data[k]) throws
Failing(k) == Throws(data[k], WalkStart(data[k]))

\* C27: when processConversationsData has ended the result has one
\* conversation per conversation of the input, a conversation whose
\* extraction throws has no messages and three counts of 0, and every other
\* conversation is what processConversationsData makes of it alone.
C27_FailuresIsolated ==
  parsePc = "done" =>
    /\ Len(result) = Len(data)
    /\ \A k \in 1..Len(data) :
         /\ result[k].id = data[k].id
         /\ Failing(k) =>
              /\ result[k].messages = <<>>
              /\ result[k].messageCount = 0
              /\ result[k].userMessageCount = 0
              /\ result[k].assistantMessageCount = 0
         /\ ~Failing(k) => result[k] = processConversationsData(<<data[k]>>)[1]

\* a conversation whose extraction threw, before and after one with messages
C27_Witness ==
  /\ parsePc = "done"
  /\ Len(data) = 2
  /\ \E k \in 1..2 : Failing(k) /\ ~Failing(3 - k) /\ Len(result[3 - k].messages) > 0

(***************************************************************************)
(* C22, C23, C30: the favorites map and the favorites store                *)
(***************************************************************************)
\* the conversationIds of the records of the favorites store
StoredFavoriteIds == {f.conversationId : f \in dbFavorites}

\* records of the favorites store for one conversation
StoredFavoritesOf(id) == {f \in dbFavorites : f.conversationId = id}

\* C22: when no FavoritesManager operation is running, the keys of the
\* favorites map are the conversationIds of the favorites store, and the
\* store holds at most one record per conversationId.
C22_MapMatchesStore ==
  pending = <<>> =>
    /\ DOMAIN favorites = StoredFavoriteIds
    /\ \A id \in ConvIds : Cardinality(StoredFavoritesOf(id)) <= 1

\* a toggleFavorite(id) call awaits the store
Toggling(id) ==
  \E j \in 1..Len(pending) : pending[j].k \in {"favAdded", "favRemoved"} /\ pending[j].key = id

\* C23: with toggleFavorite(id) calls that overlap, the store never holds
\* more than one favorite record for id, and when no call for id is
\* running id is in the favorites map exactly when it has a record in the
\* store.
C23_OverlappingToggles ==
  \A id \in ConvIds :
    /\ Cardinality(StoredFavoritesOf(id)) <= 1
    /\ ~Toggling(id) => (isFavorite(id) <=> isStoredFavorite(id))

\* the favorites of the store and of the map other than those of id are
\* left as they are in this step
OthersUnchanged(id) ==
  /\ {f \in dbFavorites' : f.conversationId # id} = {f \in dbFavorites : f.conversationId # id}
  /\ DOMAIN favorites' \ {id} = DOMAIN favorites \ {id}
  /\ \A c \in DOMAIN favorites \ {id} : favorites'[c] = favorites[c]

\* C30: updateNote issues requests only for a favorite; its removal and its
\* addition leave every other favorite of the store and of the map as it
\* was; and when its addition has succeeded the conversation is a favorite
\* in the map, the store holds exactly one record for it, and the note of
\* that record and of the entry of the map is the new note.
C30_NoteUpdated ==
  [][\A i \in 1..Len(pending) :
       /\ pending[i].k = "noteRemoved" => pending[i].key \in DOMAIN favorites
       /\ (pending[i].k \in {"noteRemoved", "noteAdded"} /\ pending' # pending) =>
            OthersUnchanged(pending[i].key)
       /\ (pending[i].k = "noteAdded" /\ favSeq' # favSeq) =>
            /\ isFavoriteAfter(pending[i].key)
            /\ favorites'[pending[i].key].note = pending[i].note
            /\ \E f \in dbFavorites' :
                 /\ f.note = pending[i].note
                 /\ {g \in dbFavorites' : g.conversationId = pending[i].key} = {f}]_vars

\* two favorites, one of them with a note in the map and in the store
C30_Witness ==
  /\ pending = <<>>
  /\ Cardinality(DOMAIN favorites) = 2
  /\ \E c \in DOMAIN favorites :
       /\ favorites[c].note = "n1"
       /\ \E f \in dbFavorites : f.conversationId = c /\ f.note = "n1"

(***************************************************************************)
(* C28, C29: the upload and the three sections of the page                 *)
(***************************************************************************)
\* the requests of kind k that are pending
Awaited(q, k) == Cardinality({j \in 1..Len(q) : q[j].k = k})

\* a request of kind k has settled in this step
KindSettled(k) == Awaited(pending', k) < Awaited(pending, k)

\* the conversations of request r are in the store
Saved(r) == \A j \in 1..Len(r.convs) : r.convs[j].id \in DOMAIN dbConversations

OneSectionShown(sc, inlineWins) ==
  /\ Cardinality(visibleSections(sc, inlineWins)) <= 1
  /\ sc.shown # "none" => visibleSections(sc, inlineWins) = {sc.shown}

\* C29: after every call of showLoading, showDashboard and showEmptyState
\* at most one of the upload section, the loading indicator and the
\* dashboard is displayed, and it is the section of the call made last:
\* across every step there is one precedence between the inline
\* style.display and the class hidden of the upload section under which
\* this is so both before and after the step.
C29_OneSectionVisible ==
  [][\E inlineWins \in BOOLEAN :
       /\ OneSectionShown(screen, inlineWins)
       /\ OneSectionShown(screen', inlineWins)]_vars

====
